---- MODULE Spec2Model ----
(***************************************************************************)
(* A model of embedding_app: the embedding client (embedding_client.py),   *)
(* the vector store builder (vector_store.py, utils.py), the sources       *)
(* (factory.py, parsers, git_parser.py, confluence_parser.py) and the      *)
(* pipeline orchestrator (cli.py).                                         *)
(*                                                                         *)
(* Specifications:                                                         *)
(*   SpecEmbed  one call of EmbeddingClient.embed_documents                *)
(*   SpecBuild  one call of VectorStoreBuilder.build                       *)
(*   SpecSeq    sequential builds against one base directory               *)
(*   SpecRace   two builders interleaved on one base directory             *)
(*   SpecCollect one call of collect_documents                             *)
(*   Spec       one run of run_pipeline                                    *)
(***************************************************************************)
EXTENDS Integers, Sequences, FiniteSets, TLC

VARIABLES
    config,      \* the configuration of the call or run (EmbeddingConfig, AppConfig)
    emb,         \* the frame of embed_documents: pc, documents, start, embeddings, result, err
    requests,    \* the requests posted so far: batch, payload and the service's outcome
    bld,         \* per builder, the frame of VectorStoreBuilder.build
    fs,          \* the base directory: resolved name -> entry
    fs0,         \* the base directory as it was at the start
    mkdirs,      \* the directory creations done so far: builder, name, whether the name existed
    stores,      \* the builds that returned: name and the store as it was written
    run          \* the frame of run_pipeline: stage, documents, texts, embeddings, store_name

vars == <<config, emb, requests, bld, fs, fs0, mkdirs, stores, run>>

----------------------------------------------------------------------------
(* Bounds and universes *)

MaxTexts == 4
MaxBatch == 3
MaxDocs == 2
MaxBuilds == 2

Min(a, b) == IF a < b THEN a ELSE b

SeqsUpTo(S, n) == UNION {[1..k -> S] : k \in 0..n}

EmptyFn == [k \in {} |-> ""]

\* The texts of a call are pairwise distinct, so that every reordering,
\* drop or duplication shows; the code never looks inside a text.
AllTexts == <<"t1", "t2", "t3", "t4", "t5", "t6">>

TextsOfLen(n) == SubSeq(AllTexts, 1, n)

\* Vector components are doubles, written as integers in units of half a
\* float32 ulp: the even numbers are the values float32 can represent.
Vectors == {<<1>>, <<2>>, <<2, 1>>}

NoError == [type |-> "", msg |-> ""]

----------------------------------------------------------------------------
(* EmbeddingClient.embed_documents *)

\* The items tried in the "data" list of a response: a direct vector, an
\* object with the vector under "embedding", an object without it, a number.
Items ==
    {[shape |-> "list", has_embedding |-> FALSE, vec |-> <<1>>],
     [shape |-> "dict", has_embedding |-> TRUE, vec |-> <<2>>],
     [shape |-> "list", has_embedding |-> FALSE, vec |-> <<2, 1>>],
     [shape |-> "dict", has_embedding |-> FALSE, vec |-> <<>>],
     [shape |-> "scalar", has_embedding |-> FALSE, vec |-> <<>>]}

Exceptions == {"ConnectionError", "HTTPError", "JSONDecodeError"}

\* The "data" lists tried for a batch of k texts: every list of at most k
\* items, and lists of k + 1 items over one accepted and one refused item.
DataLists(k) ==
    SeqsUpTo(Items, k)
    \cup [1..(k + 1) -> {[shape |-> "list", has_embedding |-> FALSE, vec |-> <<1>>],
                         [shape |-> "scalar", has_embedding |-> FALSE, vec |-> <<>>]}]

\* What requests.post / raise_for_status / response.json can produce for a
\* batch of k texts: an exception, or a JSON object with or without "data".
Outcomes(k) ==
    [kind : {"exception"}, exc : Exceptions, has_data : {FALSE}, data : {<<>>}]
    \cup [kind : {"json"}, exc : {""}, has_data : {TRUE}, data : DataLists(k)]
    \cup {[kind |-> "json", exc |-> "", has_data |-> FALSE, data |-> <<>>]}

ModelKwargs ==
    {EmptyFn, [k \in {"model"} |-> <<"m">>], [k \in {"input"} |-> <<"other">>]}

\* A loop that steps one too far after each batch.
NextStartSkips(start, batch_size) == start + batch_size + 1

\* An accumulation that puts the newest batch first.
ExtendPrepends(embeddings, batch_embeddings) == batch_embeddings \o embeddings

\* documents[start : start + batch_size]
Batch(documents, start, batch_size) ==
    SubSeq(documents, start + 1, Min(start + batch_size, Len(documents)))

\* range(0, len(documents), batch_size): the next value of start
NextStart(start, batch_size) == start + batch_size

\* payload = {"input": batch}; payload.update(model_kwargs)
Payload(batch, model_kwargs) ==
    [k \in {"input"} \cup DOMAIN model_kwargs |->
        IF k \in DOMAIN model_kwargs THEN model_kwargs[k] ELSE batch]

\* data.get("data", [])
DataOf(outcome) == IF outcome.has_data THEN outcome.data ELSE <<>>

\* An isinstance test that takes any object, with or without "embedding".
ItemAcceptedAnyDict(item) == item.shape \in {"dict", "list"}

\* isinstance(item, dict) and "embedding" in item; elif isinstance(item, list)
ItemAccepted(item) ==
    \/ item.shape = "dict" /\ item.has_embedding
    \/ item.shape = "list"

\* The loop over the items: the accepted items' vectors in order, or the
\* format error at the first item of another shape.
ParseItems(data) ==
    IF \A i \in 1..Len(data) : ItemAccepted(data[i])
    THEN [ok |-> TRUE, batch_embeddings |-> [i \in 1..Len(data) |-> data[i].vec]]
    ELSE [ok |-> FALSE, batch_embeddings |-> <<>>]

\* A count check that lets a short answer through.
CountAtMost(batch_embeddings, batch) == Len(batch_embeddings) <= Len(batch)

\* len(batch_embeddings) != len(batch) raises
CountMatches(batch_embeddings, batch) == Len(batch_embeddings) = Len(batch)

\* embeddings.extend(batch_embeddings)
Extend(embeddings, batch_embeddings) == embeddings \o batch_embeddings

\* A handler that wraps what the request raised in a ValueError.
ServiceErrorWrapped(exc) == [type |-> "ValueError", msg |-> "Failed to obtain embeddings from the API"]

FormatError == [type |-> "ValueError", msg |-> "Unexpected embedding format returned from the API"]
CountError == [type |-> "ValueError", msg |-> "Expected n embeddings, got m"]
ServiceError(exc) == [type |-> exc, msg |-> "Failed to obtain embeddings from the API"]
RangeError == [type |-> "ValueError", msg |-> "range() arg 3 must not be zero"]

IdleEmb ==
    [pc |-> "idle", documents |-> <<>>, start |-> 0, embeddings |-> <<>>,
     result |-> <<>>, err |-> NoError]

\* The frame of a call embed_documents(documents).
EmbCall(documents) == [IdleEmb EXCEPT !.pc = "entry", !.documents = documents]

\* range(start, stop, step) has a value left: step is never 0 here.
InRange(start, stop, step) == IF step > 0 THEN start < stop ELSE start > stop

\* if not documents: return [] ; otherwise range(0, len(documents),
\* batch_size) is made, which raises for a step of 0, and the loop is entered.
embed_documents_enter ==
    /\ emb.pc = "entry"
    /\ IF emb.documents = <<>>
       THEN emb' = [emb EXCEPT !.pc = "returned", !.result = <<>>]
       ELSE IF config.batch_size = 0
       THEN emb' = [emb EXCEPT !.pc = "raised", !.err = RangeError]
       ELSE emb' = [emb EXCEPT !.pc = "loop", !.start = 0, !.embeddings = <<>>]
    /\ UNCHANGED <<config, requests, bld, fs, fs0, mkdirs, stores, run>>

\* One iteration of the loop: post the batch, parse and count the answer.
embed_documents_batch ==
    /\ emb.pc = "loop"
    /\ InRange(emb.start, Len(emb.documents), config.batch_size)
    /\ LET batch == Batch(emb.documents, emb.start, config.batch_size)
           payload == Payload(batch, config.model_kwargs)
       IN \E outcome \in Outcomes(Len(batch)) :
            LET parsed == ParseItems(DataOf(outcome)) IN
            /\ requests' = Append(requests,
                   [batch |-> batch, payload |-> payload, outcome |-> outcome])
            /\ IF outcome.kind = "exception"
               THEN emb' = [emb EXCEPT !.pc = "raised", !.err = ServiceError(outcome.exc)]
               ELSE IF ~parsed.ok
               THEN emb' = [emb EXCEPT !.pc = "raised", !.err = FormatError]
               ELSE IF ~CountMatches(parsed.batch_embeddings, batch)
               THEN emb' = [emb EXCEPT !.pc = "raised", !.err = CountError]
               ELSE emb' = [emb EXCEPT
                       !.embeddings = Extend(emb.embeddings, parsed.batch_embeddings),
                       !.start = NextStart(emb.start, config.batch_size)]
    /\ UNCHANGED <<config, bld, fs, fs0, mkdirs, stores, run>>

\* The loop is exhausted: return embeddings.
embed_documents_return ==
    /\ emb.pc = "loop"
    /\ ~InRange(emb.start, Len(emb.documents), config.batch_size)
    /\ emb' = [emb EXCEPT !.pc = "returned", !.result = emb.embeddings]
    /\ UNCHANGED <<config, requests, bld, fs, fs0, mkdirs, stores, run>>

----------------------------------------------------------------------------
(* The base directory *)

\* random_suffix draws SuffixLen characters from uppercase letters and digits;
\* the alphabet is cut down to one letter and one digit.
SuffixLen == 4

Alphabet == {"A", "0"}

random_suffix == [1..SuffixLen -> Alphabet]

\* A suffix appended without the separator.
SuffixedBare(desired_name, suffix) == desired_name \o suffix

\* f"{desired_name}_{suffix}"
Suffixed(desired_name, suffix) == desired_name \o <<"_">> \o suffix

StoreName == <<"store1">>

\* A file of a store directory: absent, partially written or fully written,
\* with what was written and the build that wrote it (0: not a build).
NoFile == [st |-> "absent", data |-> <<>>, by |-> 0]
PartialFile(by) == [st |-> "partial", data |-> <<>>, by |-> by]
FullFile(data, by) == [st |-> "full", data |-> data, by |-> by]

EmptyDir == [kind |-> "dir", index |-> NoFile, meta |-> NoFile]
ForeignDir == [kind |-> "dir", index |-> FullFile(<<>>, 0), meta |-> FullFile(<<>>, 0)]
ForeignFile == [kind |-> "file", index |-> NoFile, meta |-> NoFile]

\* A check that never finds the name taken.
ExistsNever(dir, name) == FALSE

\* (base_path / name).exists()
Exists(dir, name) == name \in DOMAIN dir

Put(dir, name, entry) ==
    [n \in DOMAIN dir \cup {name} |-> IF n = name THEN entry ELSE dir[n]]

\* The base directories a build may find.
BaseDirs ==
    {EmptyFn,
     Put(EmptyFn, StoreName, ForeignDir),
     Put(EmptyFn, StoreName, ForeignFile),
     Put(Put(EmptyFn, StoreName, ForeignDir),
         Suffixed(StoreName, [i \in 1..SuffixLen |-> "A"]), ForeignDir)}

----------------------------------------------------------------------------
(* VectorStoreBuilder.build *)

Builders == {1, 2}

\* Document metadata: any keys, "id" and "text" among them.
Metadatas ==
    {[file_path |-> "a.txt"],
     [file_path |-> "b.pdf", id |-> 99],
     [title |-> "T", text |-> "shadow"]}

\* The k-th document of a call has the k-th text.
DocumentsOfLen(n) ==
    {[k \in 1..n |-> [text |-> AllTexts[k], metadata |-> md[k]]] : md \in [1..n -> Metadatas]}

\* The nearest float32 of a double (ties to even): even numbers are kept.
F32(x) == IF x % 2 = 0 THEN x ELSE IF (x + 1) % 4 = 0 THEN x + 1 ELSE x - 1

\* np.array(embeddings, dtype="float32") of rows of one length
ToFloat32(embeddings) ==
    [k \in 1..Len(embeddings) |-> [j \in 1..Len(embeddings[k]) |-> F32(embeddings[k][j])]]

\* A conversion that takes rows of any lengths.
HomogeneousAlways(embeddings) == TRUE

\* np.array refuses rows of different lengths.
Homogeneous(embeddings) ==
    \A k \in 1..Len(embeddings) : Len(embeddings[k]) = Len(embeddings[1])

\* Identifiers counted from one.
ArangeFromOne(n) == [k \in 1..n |-> k]

\* Entries in which the document's own metadata wins over "text" and "id",
\* and identifiers are counted from one.
MetadataEntryFromOne(doc_id, doc) ==
    [k \in DOMAIN doc.metadata \cup {"text", "id"} |->
        IF k \in DOMAIN doc.metadata THEN doc.metadata[k]
        ELSE IF k = "id" THEN doc_id + 1
        ELSE doc.text]

\* np.arange(len(vectors), dtype="int64")
Arange(n) == [k \in 1..n |-> k - 1]

\* index.add_with_ids(vectors, ids): the whole set in one operation
AddWithIds(vectors, ids) ==
    [k \in 1..Len(vectors) |-> [id |-> ids[k], vector |-> vectors[k]]]

\* entry = dict(doc.metadata); entry["text"] = doc.text; entry["id"] = doc_id
MetadataEntry(doc_id, doc) ==
    [k \in DOMAIN doc.metadata \cup {"text", "id"} |->
        IF k = "id" THEN doc_id
        ELSE IF k = "text" THEN doc.text
        ELSE doc.metadata[k]]

\* for doc_id, doc in enumerate(documents)
MetadataList(documents) ==
    [k \in 1..Len(documents) |-> MetadataEntry(k - 1, documents[k])]

\* A length test that only notices missing documents.
LengthMismatchShort(documents, embeddings) == Len(documents) < Len(embeddings)

\* len(documents) != len(embeddings)
LengthMismatch(documents, embeddings) == Len(documents) # Len(embeddings)

\* An emptiness test that never fires.
NoEmbeddingsNever(embeddings) == FALSE

\* not embeddings
NoEmbeddings(embeddings) == embeddings = <<>>

CardinalityError == [type |-> "ValueError", msg |-> "Number of documents does not match number of embeddings"]
EmptyInputError == [type |-> "ValueError", msg |-> "Cannot build vector store with no embeddings"]
ShapeError == [type |-> "ValueError", msg |-> "setting an array element with a sequence"]
FileExistsError == [type |-> "FileExistsError", msg |-> "mkdir"]
OSError(what) == [type |-> "OSError", msg |-> what]

IdleBuilder ==
    [pc |-> "idle", id |-> 0, store_name |-> <<>>, documents |-> <<>>,
     embeddings |-> <<>>, index |-> <<>>, metadata_list |-> <<>>,
     candidate |-> <<>>, final_name |-> <<>>, err |-> NoError]

\* The frame of a call VectorStoreBuilder(base, store_name).build(documents, embeddings).
BuildCall(id, store_name, documents, embeddings) ==
    [IdleBuilder EXCEPT !.pc = "entry", !.id = id, !.store_name = store_name,
                        !.documents = documents, !.embeddings = embeddings]

Raise(b, error) == bld' = [bld EXCEPT ![b].pc = "raised", ![b].err = error]

\* A build whose entries are the documents' own metadata dictionaries
\* (entry = doc.metadata, without the copy): writing "text" and "id" into
\* an entry writes them into the document.
build_prepare_in_place(b) ==
    /\ bld[b].pc = "entry"
    /\ ~LengthMismatch(bld[b].documents, bld[b].embeddings)
    /\ ~NoEmbeddings(bld[b].embeddings)
    /\ Homogeneous(bld[b].embeddings)
    /\ LET documents == bld[b].documents
           vectors == ToFloat32(bld[b].embeddings)
       IN bld' = [bld EXCEPT
              ![b].pc = "naming",
              ![b].index = AddWithIds(vectors, Arange(Len(vectors))),
              ![b].metadata_list = MetadataList(documents),
              ![b].documents = [k \in 1..Len(documents) |->
                                   [text |-> documents[k].text,
                                    metadata |-> MetadataEntry(k - 1, documents[k])]],
              ![b].candidate = bld[b].store_name]
    /\ UNCHANGED <<config, emb, requests, fs, fs0, mkdirs, stores, run>>

\* A build that makes its directory under the requested name first and
\* validates its input afterwards.
build_prepare_mkdir_first(b) ==
    /\ bld[b].pc = "entry"
    /\ LET documents == bld[b].documents
           embeddings == bld[b].embeddings
           name == bld[b].store_name
       IN /\ fs' = (IF name \in DOMAIN fs THEN fs ELSE Put(fs, name, EmptyDir))
          /\ mkdirs' = Append(mkdirs, [by |-> bld[b].id, name |-> name, existed |-> name \in DOMAIN fs])
          /\ IF LengthMismatch(documents, embeddings) THEN Raise(b, CardinalityError)
             ELSE IF NoEmbeddings(embeddings) THEN Raise(b, EmptyInputError)
             ELSE IF ~Homogeneous(embeddings) THEN Raise(b, ShapeError)
             ELSE bld' = [bld EXCEPT
                     ![b].pc = "write_index",
                     ![b].index = AddWithIds(ToFloat32(embeddings), Arange(Len(embeddings))),
                     ![b].metadata_list = MetadataList(documents),
                     ![b].candidate = name,
                     ![b].final_name = name]
    /\ UNCHANGED <<config, emb, requests, fs0, stores, run>>

\* The validation, the index and the metadata list, all in memory; then
\* ensure_unique_path starts from the desired name.
build_prepare(b) ==
    /\ bld[b].pc = "entry"
    /\ LET documents == bld[b].documents
           embeddings == bld[b].embeddings
       IN IF LengthMismatch(documents, embeddings) THEN Raise(b, CardinalityError)
          ELSE IF NoEmbeddings(embeddings) THEN Raise(b, EmptyInputError)
          ELSE IF ~Homogeneous(embeddings) THEN Raise(b, ShapeError)
          ELSE LET vectors == ToFloat32(embeddings)
                   ids == Arange(Len(vectors))
               IN bld' = [bld EXCEPT
                      ![b].pc = "naming",
                      ![b].index = AddWithIds(vectors, ids),
                      ![b].metadata_list = MetadataList(documents),
                      ![b].candidate = bld[b].store_name]
    /\ UNCHANGED <<config, emb, requests, fs, fs0, mkdirs, stores, run>>

\* A loop that appends the fresh suffix to the candidate it has, not to
\* the desired name.
ensure_unique_path_check_accumulates(b) ==
    /\ bld[b].pc = "naming"
    /\ IF Exists(fs, bld[b].candidate)
       THEN \E suffix \in random_suffix :
               bld' = [bld EXCEPT ![b].candidate = Suffixed(bld[b].candidate, suffix)]
       ELSE bld' = [bld EXCEPT ![b].pc = "mkdir", ![b].final_name = bld[b].candidate]
    /\ UNCHANGED <<config, emb, requests, fs, fs0, mkdirs, stores, run>>

\* One test of the while loop of ensure_unique_path: a name that exists is
\* replaced by the desired name with a fresh suffix, a free one is returned.
ensure_unique_path_check(b) ==
    /\ bld[b].pc = "naming"
    /\ IF Exists(fs, bld[b].candidate)
       THEN \E suffix \in random_suffix :
               bld' = [bld EXCEPT ![b].candidate = Suffixed(bld[b].store_name, suffix)]
       ELSE bld' = [bld EXCEPT ![b].pc = "mkdir", ![b].final_name = bld[b].candidate]
    /\ UNCHANGED <<config, emb, requests, fs, fs0, mkdirs, stores, run>>

\* store_dir.mkdir(parents=True, exist_ok=True)
build_mkdir(b) ==
    /\ bld[b].pc = "mkdir"
    /\ LET name == bld[b].final_name IN
       IF name \in DOMAIN fs /\ fs[name].kind = "file"
       THEN /\ Raise(b, FileExistsError)
            /\ UNCHANGED <<fs, mkdirs>>
       ELSE /\ fs' = (IF name \in DOMAIN fs THEN fs ELSE Put(fs, name, EmptyDir))
            /\ mkdirs' = Append(mkdirs,
                  [by |-> bld[b].id, name |-> name, existed |-> name \in DOMAIN fs])
            /\ bld' = [bld EXCEPT ![b].pc = "write_index"]
    /\ UNCHANGED <<config, emb, requests, fs0, stores, run>>

\* mkdir fails (permissions, full disk): nothing is created.
build_mkdir_fails(b) ==
    /\ bld[b].pc = "mkdir"
    /\ Raise(b, OSError("mkdir"))
    /\ UNCHANGED <<config, emb, requests, fs, fs0, mkdirs, stores, run>>

\* faiss.write_index(index, index_file)
build_write_index(b) ==
    /\ bld[b].pc = "write_index"
    /\ LET name == bld[b].final_name IN
       fs' = [fs EXCEPT ![name].index = FullFile(bld[b].index, bld[b].id)]
    /\ bld' = [bld EXCEPT ![b].pc = "write_metadata"]
    /\ UNCHANGED <<config, emb, requests, fs0, mkdirs, stores, run>>

\* The index write fails, before or after the file was opened.
build_write_index_fails(b) ==
    /\ bld[b].pc = "write_index"
    /\ LET name == bld[b].final_name IN
       \/ fs' = fs
       \/ fs' = [fs EXCEPT ![name].index = PartialFile(bld[b].id)]
    /\ Raise(b, OSError("write_index"))
    /\ UNCHANGED <<config, emb, requests, fs0, mkdirs, stores, run>>

\* open(metadata_file, "w"); json.dump(metadata_list); return final_name
build_write_metadata(b) ==
    /\ bld[b].pc = "write_metadata"
    /\ LET name == bld[b].final_name
           written == [fs EXCEPT ![name].meta = FullFile(bld[b].metadata_list, bld[b].id)]
       IN /\ fs' = written
          /\ stores' = Append(stores,
                [by |-> bld[b].id, name |-> name, entry |-> written[name]])
    /\ bld' = [bld EXCEPT ![b].pc = "returned"]
    /\ UNCHANGED <<config, emb, requests, fs0, mkdirs, run>>

\* The metadata write fails, at open or in the middle of json.dump.
build_write_metadata_fails(b) ==
    /\ bld[b].pc = "write_metadata"
    /\ LET name == bld[b].final_name IN
       \/ fs' = fs
       \/ fs' = [fs EXCEPT ![name].meta = PartialFile(bld[b].id)]
    /\ Raise(b, OSError("write_metadata"))
    /\ UNCHANGED <<config, emb, requests, fs0, mkdirs, stores, run>>

----------------------------------------------------------------------------
(* The sources: files and their parsers, the repository, the wiki space *)

MaxFiles == 2

Doc(text, metadata) == [text |-> text, metadata |-> metadata]

\* Each file of a listing and each part of it (page, sheet) has a text of
\* its own, so that the origin and the order of a document show in its text.
Stems == <<"f1", "f2", "f3", "f4">>

FileTexts == <<<<"f1p1", "f1p2">>, <<"f2p1", "f2p2">>, <<"f3p1", "f3p2">>, <<"f4p1", "f4p2">>>>

GitStems == <<"g1", "g2", "g3">>

GitTexts == <<<<"g1p1", "g1p2">>, <<"g2p1", "g2p2">>, <<"g3p1", "g3p2">>>>

\* A file on disk: its name, what stat says of it when its parser looks (a
\* regular file, nothing any more, or permission denied), whether the
\* parser's library can open and read it, and for each part (the body, a
\* page, a sheet, the tables) its text and whether the library gets it.
MkFile(stems, texts, i, kind) ==
    [stem |-> stems[i], ext |-> kind.ext, stat |-> kind.stat, opens |-> kind.opens,
     parts |-> [j \in 1..Len(kind.parts) |-> [text |-> texts[i][j], ok |-> kind.parts[j]]]]

Kind(ext, stat, opens, parts) ==
    [ext |-> ext, stat |-> stat, opens |-> opens, parts |-> parts]

TxtOk == Kind(".txt", "file", TRUE, <<TRUE>>)
TxtUnreadable == Kind(".txt", "file", FALSE, <<TRUE>>)
TxtVanished == Kind(".txt", "gone", TRUE, <<TRUE>>)
TxtDenied == Kind(".txt", "denied", TRUE, <<TRUE>>)
TxtUpper == Kind(".TXT", "file", TRUE, <<TRUE>>)
MdOk == Kind(".md", "file", TRUE, <<TRUE>>)
Exe == Kind(".exe", "file", TRUE, <<TRUE>>)
NoExt == Kind("", "file", TRUE, <<TRUE>>)
PdfBadPage == Kind(".pdf", "file", TRUE, <<TRUE, FALSE>>)
XlsxBadSheet == Kind(".xlsx", "file", TRUE, <<FALSE, TRUE>>)
DocxOk == Kind(".docx", "file", TRUE, <<TRUE>>)
DocxBadTable == Kind(".docx", "file", TRUE, <<FALSE>>)

FileKinds ==
    {TxtOk, TxtUnreadable, TxtVanished, TxtDenied, TxtUpper, Exe, NoExt, PdfBadPage, XlsxBadSheet,
     DocxOk, DocxBadTable}

\* The listings os.walk may give for a directory of at most n files.
Listings(n) ==
    UNION {{[i \in 1..k |-> MkFile(Stems, FileTexts, i, kinds[i])] : kinds \in [1..k -> FileKinds]} :
           k \in 0..n}

\* str(path)
PathStr(file) == <<file.stem, file.ext>>

\* ParserFactory._parsers
Registry ==
    [e \in {".txt", ".md", ".csv", ".tsv", ".xlsx", ".xls", ".pdf", ".docx", ".doc",
            ".png", ".jpg", ".jpeg", ".tiff", ".bmp"} |->
        CASE e \in {".txt", ".md"} -> "TextParser"
          [] e \in {".csv", ".tsv"} -> "CSVParser"
          [] e \in {".xlsx", ".xls"} -> "ExcelParser"
          [] e = ".pdf" -> "PDFParser"
          [] e \in {".docx", ".doc"} -> "WordParser"
          [] OTHER -> "ImageParser"]

\* str.lower on the extensions tried
Lower(ext) ==
    CASE ext = ".TXT" -> ".txt"
      [] ext = ".EXE" -> ".exe"
      [] ext = ".MD" -> ".md"
      [] OTHER -> ext

\* suffix.lstrip(".")
LstripDot(ext) ==
    CASE ext = ".png" -> "png"
      [] ext = ".jpg" -> "jpg"
      [] ext = ".jpeg" -> "jpeg"
      [] ext = ".tiff" -> "tiff"
      [] OTHER -> "bmp"

\* A lookup that compares the extension as it is written.
GetParserCaseSensitive(file) ==
    IF file.ext \in DOMAIN Registry THEN Registry[file.ext] ELSE "None"

\* ext = Path(file_path).suffix.lower(); cls._parsers.get(ext)
GetParser(file) ==
    LET ext == Lower(file.ext) IN
    IF ext \in DOMAIN Registry THEN Registry[ext] ELSE "None"

\* What parser.parse gives: the documents it returns, or that it raised.
\* Every parser tests path.is_file() before its try: Path.is_file returns
\* False for a path that is gone and raises PermissionError when stat is
\* denied (a file in a directory without search permission).
Parsed(docs) == [raised |-> FALSE, docs |-> docs]
ParseRaised == [raised |-> TRUE, docs |-> <<>>]

\* TextParser.parse: open and read in one try
TextParser_parse(file) ==
    IF file.stat = "denied" THEN ParseRaised
    ELSE IF file.stat # "file" THEN Parsed(<<>>)
    ELSE IF ~file.opens THEN Parsed(<<>>)
    ELSE Parsed(<<Doc(file.parts[1].text, [file_path |-> PathStr(file)])>>)

\* CSVParser.parse: pd.read_csv in a try
CSVParser_parse(file) ==
    IF file.stat = "denied" THEN ParseRaised
    ELSE IF file.stat # "file" THEN Parsed(<<>>)
    ELSE IF ~file.opens THEN Parsed(<<>>)
    ELSE Parsed(<<Doc(file.parts[1].text, [file_path |-> PathStr(file)])>>)

\* ExcelParser.parse: a sheet that fails to parse is skipped
ExcelParser_parse(file) ==
    IF file.stat = "denied" THEN ParseRaised
    ELSE IF file.stat # "file" THEN Parsed(<<>>)
    ELSE IF ~file.opens THEN Parsed(<<>>)
    ELSE LET sheets == SelectSeq([j \in 1..Len(file.parts) |-> j],
                                 LAMBDA j : file.parts[j].ok)
         IN Parsed([k \in 1..Len(sheets) |->
                Doc(file.parts[sheets[k]].text,
                    [file_path |-> PathStr(file), sheet_name |-> sheets[k]])])

\* PDFParser.parse: a page whose text cannot be extracted gives a document
\* with the empty text
PDFParser_parse(file) ==
    IF file.stat = "denied" THEN ParseRaised
    ELSE IF file.stat # "file" THEN Parsed(<<>>)
    ELSE IF ~file.opens THEN Parsed(<<>>)
    ELSE Parsed([j \in 1..Len(file.parts) |->
            Doc(IF file.parts[j].ok THEN file.parts[j].text ELSE "",
                [file_path |-> PathStr(file), page_number |-> j,
                 num_pages |-> Len(file.parts)])])

\* WordParser.parse: textract.process, or docx.Document, is in a try; the
\* walk over the paragraphs and the tables of an opened .docx is not
WordParser_parse(file) ==
    IF Lower(file.ext) \notin {".docx", ".doc"} THEN Parsed(<<>>)
    ELSE IF file.stat = "denied" THEN ParseRaised
    ELSE IF file.stat # "file" THEN Parsed(<<>>)
    ELSE IF ~file.opens THEN Parsed(<<>>)
    ELSE IF Lower(file.ext) = ".doc"
    THEN Parsed(<<Doc(file.parts[1].text, [file_path |-> PathStr(file), format |-> "doc"])>>)
    ELSE IF \E j \in 1..Len(file.parts) : ~file.parts[j].ok THEN ParseRaised
    ELSE Parsed(<<Doc(file.parts[1].text, [file_path |-> PathStr(file), format |-> "docx"])>>)

\* ImageParser.parse: Image.open and image_to_string in a try
ImageParser_parse(file) ==
    IF Lower(file.ext) \notin {".png", ".jpg", ".jpeg", ".tiff", ".bmp"} THEN Parsed(<<>>)
    ELSE IF file.stat = "denied" THEN ParseRaised
    ELSE IF file.stat # "file" THEN Parsed(<<>>)
    ELSE IF ~file.opens THEN Parsed(<<>>)
    ELSE Parsed(<<Doc(file.parts[1].text,
                      [file_path |-> PathStr(file), format |-> LstripDot(Lower(file.ext))])>>)

\* parser.parse(file_path)
Parse(parser, file) ==
    CASE parser = "TextParser" -> TextParser_parse(file)
      [] parser = "CSVParser" -> CSVParser_parse(file)
      [] parser = "ExcelParser" -> ExcelParser_parse(file)
      [] parser = "PDFParser" -> PDFParser_parse(file)
      [] parser = "WordParser" -> WordParser_parse(file)
      [] OTHER -> ImageParser_parse(file)

\* An accumulation that puts a source's documents first.
ExtendDocumentsPrepends(documents, docs) == docs \o documents

\* documents.extend(docs)
ExtendDocuments(documents, docs) == documents \o docs

NothingParsed == [raised |-> FALSE, docs |-> <<>>, offered |-> <<>>, skipped |-> <<>>]

\* for file_path in files: parser = factory.get_parser(file_path); a file
\* without parser is skipped, the others are parsed in turn; an exception
\* of parse ends the loop.
RECURSIVE ParseAll(_, _)
ParseAll(files, acc) ==
    IF files = <<>> \/ acc.raised THEN acc
    ELSE LET file == Head(files)
             parser == GetParser(file)
         IN IF parser = "None"
            THEN ParseAll(Tail(files), [acc EXCEPT !.skipped = Append(@, PathStr(file))])
            ELSE LET res == Parse(parser, file) IN
                 ParseAll(Tail(files),
                     [raised |-> res.raised,
                      docs |-> ExtendDocuments(acc.docs, res.docs),
                      offered |-> Append(acc.offered, PathStr(file)),
                      skipped |-> acc.skipped])

\* files_location: None, a path that does not exist, a file, a directory
NoFiles == [kind |-> "none", entries |-> <<>>]
MissingLocation == [kind |-> "missing", entries |-> <<>>]
SingleFile(file) == [kind |-> "file", entries |-> <<file>>]
Directory(files) == [kind |-> "dir", entries |-> files]

\* An Optional[int]: None, or an integer
None == [given |-> FALSE, value |-> 0]
Some(n) == [given |-> TRUE, value |-> n]

\* The truth value of an Optional[int] in a condition: None and 0 are false.
Truthy(optional) == optional.given /\ optional.value # 0

\* GitSettings: the extension filters ({} for None or an empty list) and
\* max_files
NoFilter == [include_extensions |-> {}, exclude_extensions |-> {}, max_files |-> None]

\* GitRepositoryHandler.iter_files
RECURSIVE IterFiles(_, _, _)
IterFiles(files, settings, count) ==
    IF files = <<>> THEN <<>>
    ELSE LET ext == Lower(Head(files).ext)
             exclude_exts == {Lower(e) : e \in settings.exclude_extensions}
             include_exts == {Lower(e) : e \in settings.include_extensions}
         IN IF exclude_exts # {} /\ ext \in exclude_exts
            THEN IterFiles(Tail(files), settings, count)
            ELSE IF include_exts # {} /\ ext \notin include_exts
            THEN IterFiles(Tail(files), settings, count)
            ELSE <<Head(files)>> \o
                 (IF Truthy(settings.max_files) /\ count + 1 >= settings.max_files.value
                  THEN <<>>
                  ELSE IterFiles(Tail(files), settings, count + 1))

\* git_settings: None, or a repository whose clone fails or gives files
NoGit == [configured |-> FALSE, clones |-> FALSE, files |-> <<>>, settings |-> NoFilter]
CloneFails == [configured |-> TRUE, clones |-> FALSE, files |-> <<>>, settings |-> NoFilter]
Repository(files, settings) ==
    [configured |-> TRUE, clones |-> TRUE, files |-> files, settings |-> settings]

Repositories ==
    {Repository(<<MkFile(GitStems, GitTexts, 1, MdOk)>>, NoFilter),
     Repository(<<MkFile(GitStems, GitTexts, 1, Exe), MkFile(GitStems, GitTexts, 2, MdOk)>>,
                [NoFilter EXCEPT !.exclude_extensions = {".exe"}]),
     Repository(<<MkFile(GitStems, GitTexts, 1, MdOk), MkFile(GitStems, GitTexts, 2, DocxBadTable),
                  MkFile(GitStems, GitTexts, 3, MdOk)>>, NoFilter)}

\* A page of the space: what get_all_pages_from_space lists of it, its
\* text, and whether get_page_by_id and the conversion to text succeed.
Page(page_id, text, ok) == [page_id |-> page_id, title |-> "T", text |-> text, ok |-> ok]

\* ConfluenceSpaceHandler.process, the loop over the pages: a page that
\* fails is skipped and not counted, the loop stops at max_pages documents
\* (0 for None or 0: no limit).
RECURSIVE FetchPages(_, _, _, _)
FetchPages(pages, max_pages, count, documents) ==
    IF pages = <<>> THEN documents
    ELSE IF max_pages # 0 /\ count >= max_pages THEN documents
    ELSE LET page == Head(pages) IN
         IF page.ok
         THEN FetchPages(Tail(pages), max_pages, count + 1,
                  Append(documents,
                         Doc(page.text, [page_id |-> page.page_id, title |-> page.title,
                                         space_key |-> "SP", url |-> <<"pages", page.page_id>>])))
         ELSE FetchPages(Tail(pages), max_pages, count, documents)

\* confluence_settings: None, or a space whose listing fails or gives pages
NoWiki == [configured |-> FALSE, lists |-> FALSE, pages |-> <<>>, max_pages |-> 0]
ListingFails == [configured |-> TRUE, lists |-> FALSE, pages |-> <<>>, max_pages |-> 0]
Space(pages, max_pages) ==
    [configured |-> TRUE, lists |-> TRUE, pages |-> pages, max_pages |-> max_pages]

\* ConfluenceSpaceHandler.process
WikiProcess(wiki) ==
    IF ~wiki.lists THEN <<>> ELSE FetchPages(wiki.pages, wiki.max_pages, 0, <<>>)

Spaces ==
    {Space(<<Page("p1", "w1", TRUE)>>, 0),
     Space(<<Page("p1", "w1", FALSE), Page("p2", "w2", TRUE), Page("p3", "w3", TRUE)>>, 1)}

\* GitRepositoryHandler._temp_dir and its directory: "none" before
\* clone_repository, "held" once tempfile.TemporaryDirectory has made the
\* directory and the handler refers to it, "released" after cleanup().
\* self._temp_dir = tempfile.TemporaryDirectory(prefix="repo_clone_")
MakeTempDir(temp_dir) == "held"

\* cleanup(): if self._temp_dir is not None: cleanup and set to None
Cleanup(temp_dir) == IF temp_dir = "held" THEN "released" ELSE temp_dir

IdleRun ==
    [stage |-> "None", pc |-> "", documents |-> <<>>, collected |-> <<>>, calls |-> <<>>,
     offered |-> <<>>, skipped |-> <<>>, texts |-> <<>>, embeddings |-> <<>>,
     store_name |-> <<>>, temp_dir |-> "none", err |-> NoError]

\* AppConfig with its EmbeddingConfig; session_id "" stands for None.
NoConfig ==
    [batch_size |-> 1, model_kwargs |-> EmptyFn, session_id |-> "",
     vector_store_name |-> StoreName,
     files |-> NoFiles, git |-> NoGit, wiki |-> NoWiki]

----------------------------------------------------------------------------
(* SpecBuild: one call of build on any documents and embeddings *)

InitBuild ==
    /\ config = NoConfig
    /\ emb = IdleEmb
    /\ requests = <<>>
    /\ \E nd \in 0..MaxDocs :
         \E documents \in DocumentsOfLen(nd), embeddings \in SeqsUpTo(Vectors, MaxDocs) :
            bld = [b \in Builders |->
                     IF b = 1 THEN BuildCall(1, StoreName, documents, embeddings)
                     ELSE IdleBuilder]
    /\ fs \in BaseDirs
    /\ fs0 = fs
    /\ mkdirs = <<>>
    /\ stores = <<>>
    /\ run = IdleRun

NextBuild ==
    \/ build_prepare(1)
    \/ ensure_unique_path_check(1)
    \/ build_mkdir(1)
    \/ build_mkdir_fails(1)
    \/ build_write_index(1)
    \/ build_write_index_fails(1)
    \/ build_write_metadata(1)
    \/ build_write_metadata_fails(1)

SpecBuild == InitBuild /\ [][NextBuild]_vars

----------------------------------------------------------------------------
(* SpecNaming: one call of ensure_unique_path, the random choice fair *)

\* The base directory with the given names in it.
DirOf(names) == [n \in names |-> ForeignDir]

\* Every name ensure_unique_path can try for the desired name.
Candidates(desired_name) ==
    {desired_name} \cup {Suffixed(desired_name, suffix) : suffix \in random_suffix}

\* The base directories of a call: empty; the desired name alone, or with
\* one suffixed name, or with every suffixed name but one, or with all of
\* them; and every suffixed name without the desired one.
NamingDirs ==
    {EmptyFn, DirOf({StoreName}), DirOf(Candidates(StoreName)),
     DirOf(Candidates(StoreName) \ {StoreName})}
    \cup {DirOf({StoreName, Suffixed(StoreName, suffix)}) : suffix \in random_suffix}
    \cup {DirOf(Candidates(StoreName) \ {Suffixed(StoreName, suffix)}) : suffix \in random_suffix}

\* ensure_unique_path(base_dir, desired_name) is entered: candidate = desired_name
InitNaming ==
    /\ config = NoConfig
    /\ emb = IdleEmb
    /\ requests = <<>>
    /\ bld = [b \in Builders |->
                IF b = 1
                THEN [IdleBuilder EXCEPT !.pc = "naming", !.id = 1, !.store_name = StoreName,
                                         !.candidate = StoreName]
                ELSE IdleBuilder]
    /\ fs \in NamingDirs
    /\ fs0 = fs
    /\ mkdirs = <<>>
    /\ stores = <<>>
    /\ run = IdleRun

NextNaming == ensure_unique_path_check(1)

\* random_suffix has drawn this suffix.
Draws(suffix) ==
    /\ ensure_unique_path_check(1)
    /\ bld'[1].pc = "naming"
    /\ bld'[1].candidate = Suffixed(bld[1].store_name, suffix)

\* The loop goes on as long as it can, and a fair random.choices draws
\* every suffix again and again.
SpecNaming ==
    /\ InitNaming
    /\ [][NextNaming]_vars
    /\ WF_vars(NextNaming)
    /\ \A suffix \in random_suffix : WF_vars(Draws(suffix))

----------------------------------------------------------------------------

(* SpecSeq: builds one after the other, same name, same base directory *)

\* The k-th build of a sequence: one document with the k-th text.
SeqDocuments(k) == <<[text |-> AllTexts[k], metadata |-> [file_path |-> "a.txt"]]>>

SeqEmbeddings == <<(<<2>>)>>

InitSeq ==
    /\ config = NoConfig
    /\ emb = IdleEmb
    /\ requests = <<>>
    /\ bld = [b \in Builders |->
                IF b = 1 THEN BuildCall(1, StoreName, SeqDocuments(1), SeqEmbeddings)
                ELSE IdleBuilder]
    /\ fs \in BaseDirs
    /\ fs0 = fs
    /\ mkdirs = <<>>
    /\ stores = <<>>
    /\ run = IdleRun

\* The previous build has returned; the next one is called.
next_build ==
    /\ bld[1].pc = "returned"
    /\ bld[1].id < MaxBuilds
    /\ bld' = [bld EXCEPT ![1] =
                 BuildCall(bld[1].id + 1, StoreName, SeqDocuments(bld[1].id + 1), SeqEmbeddings)]
    /\ UNCHANGED <<config, emb, requests, fs, fs0, mkdirs, stores, run>>

NextSeq ==
    \/ next_build
    \/ build_prepare(1)
    \/ ensure_unique_path_check(1)
    \/ build_mkdir(1)
    \/ build_write_index(1)
    \/ build_write_metadata(1)

SpecSeq == InitSeq /\ [][NextSeq]_vars

----------------------------------------------------------------------------
(* SpecRace: two builders, same name, same base directory, interleaved *)

InitRace ==
    /\ config = NoConfig
    /\ emb = IdleEmb
    /\ requests = <<>>
    /\ bld = [b \in Builders |-> BuildCall(b, StoreName, SeqDocuments(b), SeqEmbeddings)]
    /\ fs \in {EmptyFn, Put(EmptyFn, StoreName, ForeignDir)}
    /\ fs0 = fs
    /\ mkdirs = <<>>
    /\ stores = <<>>
    /\ run = IdleRun

NextRace ==
    \E b \in Builders :
        \/ build_prepare(b)
        \/ ensure_unique_path_check(b)
        \/ build_mkdir(b)
        \/ build_write_index(b)
        \/ build_write_metadata(b)

SpecRace == InitRace /\ [][NextRace]_vars

----------------------------------------------------------------------------
(* run_pipeline *)

NoDocumentsError == [type |-> "RuntimeError", msg |-> "No documents were collected"]
CloneError == [type |-> "GitCommandError", msg |-> "Failed to clone repository"]
ParseError == [type |-> "Exception", msg |-> "parser.parse raised"]

\* An emptiness test that never fires.
NoDocumentsNever(documents) == FALSE

\* not documents
NoDocuments(documents) == documents = <<>>

\* A stamp under another key.
StampWrongKey(doc, session_id) ==
    [text |-> doc.text,
     metadata |-> [k \in DOMAIN doc.metadata \cup {"session"} |->
                      IF k = "session" THEN session_id ELSE doc.metadata[k]]]

\* doc.metadata["session_id"] = config.session_id
Stamp(doc, session_id) ==
    [text |-> doc.text,
     metadata |-> [k \in DOMAIN doc.metadata \cup {"session_id"} |->
                      IF k = "session_id" THEN session_id ELSE doc.metadata[k]]]

\* A projection that turns the order around.
TextsOfReversed(documents) ==
    [k \in 1..Len(documents) |-> documents[Len(documents) + 1 - k].text]

\* [doc.text for doc in documents]
TextsOf(documents) == [k \in 1..Len(documents) |-> documents[k].text]

Fail(error) == run' = [run EXCEPT !.stage = "Failed", !.err = error]

\* collect_documents, the filesystem source: a single file or the walk of a
\* directory; a location that does not exist is logged and passed over.
collect_documents_files ==
    /\ run.stage = "Collecting"
    /\ run.pc = "files"
    /\ LET loc == config.files
           walked == loc.kind \in {"file", "dir"}
           res == IF walked THEN ParseAll(loc.entries, NothingParsed) ELSE NothingParsed
           calls == IF walked THEN Append(run.calls, "files") ELSE run.calls
       IN IF res.raised
          THEN run' = [run EXCEPT !.stage = "Failed", !.err = ParseError, !.calls = calls,
                                  !.offered = res.offered, !.skipped = res.skipped]
          ELSE run' = [run EXCEPT !.pc = "git", !.calls = calls,
                                  !.documents = ExtendDocuments(run.documents, res.docs),
                                  !.offered = res.offered, !.skipped = res.skipped]
    /\ UNCHANGED <<config, emb, requests, bld, fs, fs0, mkdirs, stores>>

\* collect_documents, the repository: GitRepositoryHandler(...).process().
\* clone_repository makes the temporary directory and clones into it; an
\* exception of the clone, of the checkout or of a parser leaves process
\* before its call of cleanup, which is the last statement but one.
collect_documents_git ==
    /\ run.stage = "Collecting"
    /\ run.pc = "git"
    /\ LET git == config.git IN
       IF ~git.configured THEN run' = [run EXCEPT !.pc = "wiki"]
       ELSE IF ~git.clones
       THEN run' = [run EXCEPT !.stage = "Failed", !.err = CloneError,
                               !.calls = Append(run.calls, "git"),
                               !.temp_dir = MakeTempDir(run.temp_dir)]
       ELSE LET res == ParseAll(IterFiles(git.files, git.settings, 0), NothingParsed) IN
            IF res.raised
            THEN run' = [run EXCEPT !.stage = "Failed", !.err = ParseError,
                                    !.calls = Append(run.calls, "git"),
                                    !.temp_dir = MakeTempDir(run.temp_dir),
                                    !.offered = run.offered \o res.offered,
                                    !.skipped = run.skipped \o res.skipped]
            ELSE run' = [run EXCEPT !.pc = "wiki", !.calls = Append(run.calls, "git"),
                                    !.temp_dir = Cleanup(MakeTempDir(run.temp_dir)),
                                    !.documents = ExtendDocuments(run.documents, res.docs),
                                    !.offered = run.offered \o res.offered,
                                    !.skipped = run.skipped \o res.skipped]
    /\ UNCHANGED <<config, emb, requests, bld, fs, fs0, mkdirs, stores>>

\* collect_documents, the wiki: ConfluenceSpaceHandler(...).process()
collect_documents_wiki ==
    /\ run.stage = "Collecting"
    /\ run.pc = "wiki"
    /\ IF ~config.wiki.configured THEN run' = [run EXCEPT !.pc = "check"]
       ELSE run' = [run EXCEPT !.pc = "check", !.calls = Append(run.calls, "wiki"),
                               !.documents = ExtendDocuments(run.documents, WikiProcess(config.wiki))]
    /\ UNCHANGED <<config, emb, requests, bld, fs, fs0, mkdirs, stores>>

\* collect_documents, the end: the emptiness test, the session id, return.
collect_documents_finish ==
    /\ run.stage = "Collecting"
    /\ run.pc = "check"
    /\ IF NoDocuments(run.documents) THEN Fail(NoDocumentsError)
       ELSE run' = [run EXCEPT
               !.stage = "Extracting",
               !.pc = "",
               !.collected = run.documents,
               !.documents =
                   IF config.session_id # ""
                   THEN [k \in 1..Len(run.documents) |-> Stamp(run.documents[k], config.session_id)]
                   ELSE run.documents]
    /\ UNCHANGED <<config, emb, requests, bld, fs, fs0, mkdirs, stores>>

\* texts = [doc.text ...]; embedding_client.embed_documents(texts) is called.
run_pipeline_extract ==
    /\ run.stage = "Extracting"
    /\ run' = [run EXCEPT !.stage = "Embedding", !.texts = TextsOf(run.documents)]
    /\ emb' = EmbCall(TextsOf(run.documents))
    /\ UNCHANGED <<config, requests, bld, fs, fs0, mkdirs, stores>>

\* A pipeline that hands build the vectors it has as soon as the first
\* batch is answered, while the requests go on.
run_pipeline_index_streams ==
    /\ run.stage = "Embedding"
    /\ emb.pc \in {"loop", "returned"}
    /\ emb.embeddings # <<>>
    /\ run' = [run EXCEPT !.stage = "Indexing", !.embeddings = emb.embeddings]
    /\ bld' = [bld EXCEPT ![1] =
                 BuildCall(1, config.vector_store_name,
                           SubSeq(run.documents, 1, Len(emb.embeddings)), emb.embeddings)]
    /\ UNCHANGED <<config, emb, requests, fs, fs0, mkdirs, stores>>

\* embed_documents has returned; builder.build(documents, embeddings) is called.
run_pipeline_index ==
    /\ run.stage = "Embedding"
    /\ emb.pc = "returned"
    /\ run' = [run EXCEPT !.stage = "Indexing", !.embeddings = emb.result]
    /\ bld' = [bld EXCEPT ![1] =
                 BuildCall(1, config.vector_store_name, run.documents, emb.result)]
    /\ UNCHANGED <<config, emb, requests, fs, fs0, mkdirs, stores>>

\* build has returned: return store_name.
run_pipeline_return ==
    /\ run.stage = "Indexing"
    /\ bld[1].pc = "returned"
    /\ run' = [run EXCEPT !.stage = "Done", !.store_name = bld[1].final_name]
    /\ UNCHANGED <<config, emb, requests, bld, fs, fs0, mkdirs, stores>>

\* A handler that logs the exception and lets the run end as if it had
\* succeeded.
run_pipeline_swallows ==
    /\ \/ run.stage = "Embedding" /\ emb.pc = "raised"
       \/ run.stage = "Indexing" /\ bld[1].pc = "raised"
    /\ run' = [run EXCEPT !.stage = "Done"]
    /\ UNCHANGED <<config, emb, requests, bld, fs, fs0, mkdirs, stores>>

\* An exception of embed_documents or of build leaves run_pipeline.
run_pipeline_raise ==
    /\ \/ run.stage = "Embedding" /\ emb.pc = "raised" /\ Fail(emb.err)
       \/ run.stage = "Indexing" /\ bld[1].pc = "raised" /\ Fail(bld[1].err)
    /\ UNCHANGED <<config, emb, requests, bld, fs, fs0, mkdirs, stores>>

\* The sources of the runs: none, one that yields nothing, one that yields
\* documents, and a repository whose clone fails.
PipelineFiles ==
    {NoFiles, MissingLocation,
     Directory(<<MkFile(Stems, FileTexts, 1, Exe)>>),
     Directory(<<MkFile(Stems, FileTexts, 1, TxtOk), MkFile(Stems, FileTexts, 2, XlsxBadSheet)>>)}

PipelineGit == {NoGit, CloneFails, Repository(<<MkFile(GitStems, GitTexts, 1, MdOk)>>, NoFilter)}

PipelineWiki == {NoWiki, ListingFails, Space(<<Page("p1", "w1", TRUE)>>, 0)}

Init ==
    /\ \E batch_size \in 1..MaxBatch, model_kwargs \in ModelKwargs,
          session_id \in {"", "S1"},
          files \in PipelineFiles, git \in PipelineGit, wiki \in PipelineWiki :
          config = [batch_size |-> batch_size, model_kwargs |-> model_kwargs,
                    session_id |-> session_id, vector_store_name |-> StoreName,
                    files |-> files, git |-> git, wiki |-> wiki]
    /\ emb = IdleEmb
    /\ requests = <<>>
    /\ bld = [b \in Builders |-> IdleBuilder]
    /\ fs \in {EmptyFn, Put(EmptyFn, StoreName, ForeignDir)}
    /\ fs0 = fs
    /\ mkdirs = <<>>
    /\ stores = <<>>
    /\ run = [IdleRun EXCEPT !.stage = "Collecting", !.pc = "files"]

Next ==
    \/ collect_documents_files
    \/ collect_documents_git
    \/ collect_documents_wiki
    \/ collect_documents_finish
    \/ run_pipeline_extract
    \/ embed_documents_enter
    \/ embed_documents_batch
    \/ embed_documents_return
    \/ run_pipeline_index
    \/ build_prepare(1)
    \/ ensure_unique_path_check(1)
    \/ build_mkdir(1)
    \/ build_mkdir_fails(1)
    \/ build_write_index(1)
    \/ build_write_index_fails(1)
    \/ build_write_metadata(1)
    \/ build_write_metadata_fails(1)
    \/ run_pipeline_return
    \/ run_pipeline_raise

Spec == Init /\ [][Next]_vars

----------------------------------------------------------------------------
(* main: parse_args and setup_logging, then run_pipeline *)

\* The value of a JSON option of the command line, by what json.loads and
\* the dataclass constructor make of it: "absent" (not given, or the empty
\* string), "not_json" (json.loads raises), "not_object" (JSON, but a list,
\* a number or null: the ** call raises TypeError), "bad_fields" (an object
\* with an unknown key or without a required one: the constructor raises
\* TypeError) and "object" (an object the constructor takes).
Option(shape, value) == [shape |-> shape, value |-> value]

OptionShapes == {"absent", "not_json", "not_object", "bad_fields", "object"}

\* EmbeddingConfig.batch_size when --embedding_config does not give it
DefaultBatchSize == 32

\* EmbeddingConfig() and EmbeddingConfig(**embed_dict): the fields are
\* taken as they are given, batch_size unchecked.
EmbeddingConfigDefault == [batch_size |-> DefaultBatchSize, model_kwargs |-> EmptyFn]

EmbeddingConfigOf(option) ==
    IF option.shape = "object" THEN option.value ELSE EmbeddingConfigDefault

\* json.loads and the constructor both succeed, or the option is not given.
Parses(option) == option.shape \in {"absent", "object"}

SystemExitGit == [type |-> "SystemExit", msg |-> "Failed to parse --git_settings"]
SystemExitConfluence == [type |-> "SystemExit", msg |-> "Failed to parse --confluence_settings"]
SystemExitEmbedding == [type |-> "SystemExit", msg |-> "Failed to parse --embedding_config"]

\* The log file setup_logging opens in the directory vector_store_path,
\* which it creates first when it is not there.
LogName == <<"application.log">>

LogFile == [kind |-> "file", index |-> NoFile, meta |-> NoFile]

\* The command line and the AppConfig made of it.
MainConfig(args, embedding_config, git, wiki) ==
    [args |-> args,
     batch_size |-> embedding_config.batch_size,
     model_kwargs |-> embedding_config.model_kwargs,
     session_id |-> args.session_id,
     vector_store_name |-> StoreName,
     files |-> args.files_location,
     git |-> git, wiki |-> wiki]

\* parse_args: each JSON option is loaded and made into its dataclass in a
\* try that exits on any exception; then the AppConfig is made and
\* setup_logging creates the directory and the log file; main goes on to
\* run_pipeline.
parse_args ==
    /\ run.stage = "Parsing"
    /\ LET args == config.args IN
       IF ~Parses(args.git_settings) THEN Fail(SystemExitGit) /\ UNCHANGED <<config, fs>>
       ELSE IF ~Parses(args.confluence_settings)
       THEN Fail(SystemExitConfluence) /\ UNCHANGED <<config, fs>>
       ELSE IF ~Parses(args.embedding_config)
       THEN Fail(SystemExitEmbedding) /\ UNCHANGED <<config, fs>>
       ELSE /\ config' = MainConfig(args, EmbeddingConfigOf(args.embedding_config),
                                    args.git_settings.value, args.confluence_settings.value)
            /\ fs' = Put(fs, LogName, LogFile)
            /\ run' = [run EXCEPT !.stage = "Collecting", !.pc = "files"]
    /\ UNCHANGED <<emb, requests, bld, fs0, mkdirs, stores>>

\* The values tried for an option: the four ways of not being a usable
\* object, and the objects given.
OptionsOver(none, objects) ==
    {Option(shape, none) : shape \in OptionShapes \ {"object"}}
    \cup {Option("object", value) : value \in objects}

\* The batch sizes tried: -1, 0 and the positive ones up to MaxBatch.
BatchSizes == (0 - 1)..MaxBatch

InitMain ==
    /\ \E git_settings \in OptionsOver(NoGit, {Repository(<<MkFile(GitStems, GitTexts, 1, MdOk)>>, NoFilter)}),
          confluence_settings \in OptionsOver(NoWiki, {Space(<<Page("p1", "w1", TRUE)>>, 0)}),
          embedding_config \in OptionsOver(EmbeddingConfigDefault,
                                  {[batch_size |-> b, model_kwargs |-> EmptyFn] : b \in BatchSizes}),
          files_location \in {NoFiles, Directory(<<MkFile(Stems, FileTexts, 1, TxtOk)>>)} :
          config = MainConfig([git_settings |-> git_settings,
                               confluence_settings |-> confluence_settings,
                               embedding_config |-> embedding_config,
                               files_location |-> files_location, session_id |-> ""],
                              EmbeddingConfigDefault, NoGit, NoWiki)
    /\ emb = IdleEmb
    /\ requests = <<>>
    /\ bld = [b \in Builders |-> IdleBuilder]
    /\ fs \in {EmptyFn, Put(EmptyFn, StoreName, ForeignDir)}
    /\ fs0 = fs
    /\ mkdirs = <<>>
    /\ stores = <<>>
    /\ run = [IdleRun EXCEPT !.stage = "Parsing"]

NextMain ==
    \/ parse_args
    \/ Next

SpecMain == InitMain /\ [][NextMain]_vars

----------------------------------------------------------------------------

(* test/quick_connectivity_test.py: main, schedule_runs, build_config *)

SourceNames == <<"files", "git", "confluence">>

\* sorted(source_set), the names in alphabetical order
Sorted(source_set) ==
    SelectSeq(<<"confluence", "files", "git">>, LAMBDA name : name \in source_set)

\* present = {name for name, cfg in sources if cfg}
Present(args) ==
    {name \in {"files", "git", "confluence"} :
        CASE name = "files" -> args.files_location.kind # "none"
          [] name = "git" -> args.git_settings.configured
          [] OTHER -> args.confluence_settings.configured}

\* A schedule without the combined run.
schedule_runs_singles(args) ==
    LET present == Present(args) IN
    SelectSeq([k \in 1..Len(SourceNames) |-> {SourceNames[k]}],
              LAMBDA source_set : source_set \subseteq present)

\* schedule_runs: one run for each source that is configured, in the order
\* files, git, confluence, and one more over all of them if they are
\* more than one.
schedule_runs(args) ==
    LET present == Present(args)
        singles == SelectSeq([k \in 1..Len(SourceNames) |-> {SourceNames[k]}],
                             LAMBDA source_set : source_set \subseteq present)
    IN IF Cardinality(present) > 1 THEN Append(singles, present) ELSE singles

\* --embedding_batch_size, by default
ConnectivityBatchSize == 8

StorePrefix == <<"connectivity">>

\* uuid4().hex[:6], cut down to two values
HexSuffixes == {"0a", "1b"}

\* build_config: the AppConfig of one run, with the sources of its set
\* alone and the store name f"{store_prefix}_{label}_{uuid4().hex[:6]}",
\* the label being "-".join(sorted(source_set)).
build_config(script, source_set, hex) ==
    [script |-> script,
     batch_size |-> ConnectivityBatchSize,
     model_kwargs |-> EmptyFn,
     session_id |-> "",
     vector_store_name |-> StorePrefix \o Sorted(source_set) \o <<hex>>,
     files |-> IF "files" \in source_set THEN script.args.files_location ELSE NoFiles,
     git |-> IF "git" \in source_set THEN script.args.git_settings ELSE NoGit,
     wiki |-> IF "confluence" \in source_set THEN script.args.confluence_settings ELSE NoWiki]

\* The frame of main: its arguments, the runs scheduled, the index of the
\* run at hand, the exit code, and for each run gone through its source
\* set, its store name and whether it succeeded.
ScriptCall(args) ==
    [pc |-> "start", args |-> args, runs |-> <<>>, i |-> 0, exit_code |-> 0, log |-> <<>>]

IdleConfig(script) ==
    [script |-> script, batch_size |-> ConnectivityBatchSize, model_kwargs |-> EmptyFn,
     session_id |-> "", vector_store_name |-> StorePrefix,
     files |-> NoFiles, git |-> NoGit, wiki |-> NoWiki]

\* main up to the loop: setup_logging, the settings, schedule_runs; with
\* no run scheduled it returns 1.
connectivity_main_schedule ==
    /\ config.script.pc = "start"
    /\ fs' = Put(fs, LogName, LogFile)
    /\ LET runs == schedule_runs(config.script.args) IN
       IF runs = <<>>
       THEN config' = [config EXCEPT !.script.pc = "exited", !.script.exit_code = 1]
       ELSE config' = [config EXCEPT !.script.pc = "loop", !.script.runs = runs, !.script.i = 1]
    /\ UNCHANGED <<emb, requests, bld, fs0, mkdirs, stores, run>>

\* The body of the loop up to the call: build_config and run_pipeline(config)
\* with a client and a builder of its own.
connectivity_main_run ==
    /\ config.script.pc = "loop"
    /\ config.script.i <= Len(config.script.runs)
    /\ \E hex \in HexSuffixes :
          config' = build_config([config.script EXCEPT !.pc = "running"],
                                 config.script.runs[config.script.i], hex)
    /\ run' = [IdleRun EXCEPT !.stage = "Collecting", !.pc = "files"]
    /\ emb' = IdleEmb
    /\ requests' = <<>>
    /\ bld' = [b \in Builders |-> IdleBuilder]
    /\ UNCHANGED <<fs, fs0, mkdirs, stores>>

\* A loop that gives up at the first run that fails.
connectivity_main_result_stops ==
    /\ config.script.pc = "running"
    /\ run.stage \in {"Done", "Failed"}
    /\ LET ok == run.stage = "Done"
           entry == [source_set |-> config.script.runs[config.script.i],
                     store_name |-> config.vector_store_name, ok |-> ok]
       IN config' = [config EXCEPT
              !.script.pc = IF ok THEN "loop" ELSE "exited",
              !.script.i = @ + 1,
              !.script.exit_code = IF ok THEN @ ELSE 1,
              !.script.log = Append(@, entry)]
    /\ run' = IdleRun
    /\ UNCHANGED <<emb, requests, bld, fs, fs0, mkdirs, stores>>

\* The body of the loop after the call: run_pipeline has returned, or
\* raised an exception, which sets the exit code to 1; the loop goes on.
connectivity_main_result ==
    /\ config.script.pc = "running"
    /\ run.stage \in {"Done", "Failed"}
    /\ LET ok == run.stage = "Done"
           entry == [source_set |-> config.script.runs[config.script.i],
                     store_name |-> config.vector_store_name, ok |-> ok]
       IN config' = [config EXCEPT
              !.script.pc = "loop",
              !.script.i = @ + 1,
              !.script.exit_code = IF ok THEN @ ELSE 1,
              !.script.log = Append(@, entry)]
    /\ run' = IdleRun
    /\ UNCHANGED <<emb, requests, bld, fs, fs0, mkdirs, stores>>

\* The loop is exhausted: return exit_code.
connectivity_main_return ==
    /\ config.script.pc = "loop"
    /\ config.script.i > Len(config.script.runs)
    /\ config' = [config EXCEPT !.script.pc = "exited"]
    /\ UNCHANGED <<emb, requests, bld, fs, fs0, mkdirs, stores, run>>

InitConnectivity ==
    /\ \E files_location \in {NoFiles, Directory(<<MkFile(Stems, FileTexts, 1, TxtOk)>>)},
          git_settings \in {NoGit, CloneFails},
          confluence_settings \in {NoWiki, Space(<<Page("p1", "w1", TRUE)>>, 0)} :
          config = IdleConfig(ScriptCall([files_location |-> files_location,
                                          git_settings |-> git_settings,
                                          confluence_settings |-> confluence_settings]))
    /\ emb = IdleEmb
    /\ requests = <<>>
    /\ bld = [b \in Builders |-> IdleBuilder]
    /\ fs = EmptyFn
    /\ fs0 = fs
    /\ mkdirs = <<>>
    /\ stores = <<>>
    /\ run = IdleRun

NextConnectivity ==
    \/ connectivity_main_schedule
    \/ connectivity_main_run
    \/ connectivity_main_result
    \/ connectivity_main_return
    \/ Next

SpecConnectivity == InitConnectivity /\ [][NextConnectivity]_vars

----------------------------------------------------------------------------

(* SpecEmbed: one call of embed_documents on any texts *)

InitEmbed ==
    /\ \E batch_size \in 1..MaxBatch, model_kwargs \in ModelKwargs :
          config = [NoConfig EXCEPT !.batch_size = batch_size, !.model_kwargs = model_kwargs]
    /\ emb \in {EmbCall(TextsOfLen(n)) : n \in 0..MaxTexts}
    /\ requests = <<>>
    /\ bld = [b \in Builders |-> IdleBuilder]
    /\ fs = EmptyFn
    /\ fs0 = fs
    /\ mkdirs = <<>>
    /\ stores = <<>>
    /\ run = IdleRun

NextEmbed ==
    \/ embed_documents_enter
    \/ embed_documents_batch
    \/ embed_documents_return

SpecEmbed == InitEmbed /\ [][NextEmbed]_vars

----------------------------------------------------------------------------
(* SpecCollect: one call of collect_documents on any sources *)

InitCollect ==
    /\ \E session_id \in {"", "S1"},
          files \in {NoFiles, MissingLocation}
                    \cup {SingleFile(MkFile(Stems, FileTexts, 1, kind)) :
                             kind \in {k \in FileKinds : k.stat # "denied"}}
                    \cup {Directory(files) : files \in Listings(MaxFiles)},
          git \in {NoGit, CloneFails} \cup Repositories,
          wiki \in {NoWiki, ListingFails} \cup Spaces :
          config = [NoConfig EXCEPT !.session_id = session_id,
                                    !.files = files, !.git = git, !.wiki = wiki]
    /\ emb = IdleEmb
    /\ requests = <<>>
    /\ bld = [b \in Builders |-> IdleBuilder]
    /\ fs = EmptyFn
    /\ fs0 = fs
    /\ mkdirs = <<>>
    /\ stores = <<>>
    /\ run = [IdleRun EXCEPT !.stage = "Collecting", !.pc = "files"]

NextCollect ==
    \/ collect_documents_files
    \/ collect_documents_git
    \/ collect_documents_wiki
    \/ collect_documents_finish

SpecCollect == InitCollect /\ [][NextCollect]_vars

----------------------------------------------------------------------------
(* SpecGit: one call of collect_documents on a repository alone *)

\* The files os.walk may give for a clone of at most n files: supported
\* and unsupported extensions, in lower and in upper case, and none.
RepoListings(n) ==
    UNION {{[i \in 1..k |-> MkFile(GitStems, GitTexts, i, kinds[i])] :
               kinds \in [1..k -> {MdOk, Exe, TxtUpper, NoExt}]} : k \in 0..n}

\* The GitSettings tried: no list, lists in lower and in upper case, an
\* extension in both lists; max_files None, 0, negative and positive.
RepoSettings ==
    [include_extensions : {{}, {".md"}, {".MD"}, {".md", ".exe"}},
     exclude_extensions : {{}, {".exe"}, {".txt"}},
     max_files : {None} \cup {Some(n) : n \in (0 - 1)..MaxFiles}]

InitGit ==
    /\ \E files \in RepoListings(MaxFiles), settings \in RepoSettings :
          config = [NoConfig EXCEPT !.git = Repository(files, settings)]
    /\ emb = IdleEmb
    /\ requests = <<>>
    /\ bld = [b \in Builders |-> IdleBuilder]
    /\ fs = EmptyFn
    /\ fs0 = fs
    /\ mkdirs = <<>>
    /\ stores = <<>>
    /\ run = [IdleRun EXCEPT !.stage = "Collecting", !.pc = "files"]

SpecGit == InitGit /\ [][NextCollect]_vars

----------------------------------------------------------------------------

(* Claims about embed_documents *)

RECURSIVE Flatten(_)
Flatten(ss) == IF ss = <<>> THEN <<>> ELSE Head(ss) \o Flatten(Tail(ss))

\* What the service answered, read off the wire: a response is well formed
\* when it is a JSON object whose "data" holds one vector per text sent.
WellFormedResponse(r) ==
    /\ r.outcome.kind = "json"
    /\ r.outcome.has_data
    /\ Len(r.outcome.data) = Len(r.batch)
    /\ \A i \in 1..Len(r.outcome.data) :
          r.outcome.data[i].shape = "list"
          \/ (r.outcome.data[i].shape = "dict" /\ r.outcome.data[i].has_embedding)

ReturnedVectors(r) == [i \in 1..Len(r.outcome.data) |-> r.outcome.data[i].vec]

AllReturnedVectors == Flatten([k \in 1..Len(requests) |-> ReturnedVectors(requests[k])])

AllBatches == Flatten([k \in 1..Len(requests) |-> requests[k].batch])

CeilDiv(n, b) == (n + b - 1) \div b

\* C1: when every response carries one well-formed vector per text of its
\* batch, embed_documents returns (it does not raise), and the result has
\* the length of the input and is the concatenation of the responses'
\* vectors in batch order: its i-th element is the vector returned for the
\* i-th text.
C1_LengthAndOrderPreserved ==
    /\ emb.pc = "raised" => \E k \in 1..Len(requests) : ~WellFormedResponse(requests[k])
    /\ emb.pc = "returned" =>
          /\ \A k \in 1..Len(requests) : WellFormedResponse(requests[k])
          /\ Len(emb.result) = Len(emb.documents)
          /\ emb.result = AllReturnedVectors
          /\ \A i \in 1..Len(emb.documents) :
                LET k == ((i - 1) \div config.batch_size) + 1
                    j == ((i - 1) % config.batch_size) + 1
                IN /\ requests[k].batch[j] = emb.documents[i]
                   /\ emb.result[i] = requests[k].outcome.data[j].vec

\* A call on three texts in two batches has returned, one item of each
\* accepted shape among the answers.
C1_Witness ==
    /\ emb.pc = "returned"
    /\ Len(emb.documents) = 3
    /\ Len(requests) = 2
    /\ emb.result = <<(<<1>>), (<<2>>), (<<2, 1>>)>>
    /\ requests[1].outcome.data[1].shape = "list"
    /\ requests[1].outcome.data[2].shape = "dict"

\* C2: a call on n texts with batch size b that returns has issued exactly
\* ceil(n/b) requests (none, with an empty result, for n = 0); every batch
\* but the last has b texts, the last has n mod b (b when b divides n), and
\* the batches concatenated in request order are the input.
C2_BatchPartition ==
    emb.pc = "returned" =>
        LET n == Len(emb.documents)
            b == config.batch_size
            m == Len(requests)
        IN /\ m = CeilDiv(n, b)
           /\ n = 0 => (m = 0 /\ emb.result = <<>>)
           /\ \A k \in 1..(m - 1) : Len(requests[k].batch) = b
           /\ m > 0 => Len(requests[m].batch) = (IF n % b = 0 THEN b ELSE n % b)
           /\ AllBatches = emb.documents

\* Three texts with batch size 2 were sent as batches of 2 and 1.
C2_Witness ==
    /\ emb.pc = "returned"
    /\ config.batch_size = 2
    /\ Len(requests) = 2
    /\ Len(requests[1].batch) = 2
    /\ Len(requests[2].batch) = 1

\* The empty input returned empty with no request.
C2_WitnessEmpty ==
    /\ emb.pc = "returned"
    /\ emb.documents = <<>>
    /\ requests = <<>>

----------------------------------------------------------------------------
(* Claims about build *)

Returned(b) == bld[b].pc = "returned"

\* The store directory a returned build names.
StoreOf(b) == fs[bld[b].final_name]

OwnKeys(f) == DOMAIN f \ {"id", "text"}

\* C3 as stated: the persisted metadata list has one entry per document, in
\* input order, with id = position, the document's text, and as remaining
\* fields exactly the document's metadata.
C3_Original ==
    Returned(1) =>
        LET documents == bld[1].documents
            meta == StoreOf(1).meta
        IN /\ meta.st = "full"
           /\ Len(meta.data) = Len(documents)
           /\ \A k \in 1..Len(documents) :
                 /\ meta.data[k]["id"] = k - 1
                 /\ meta.data[k]["text"] = documents[k].text
                 /\ OwnKeys(meta.data[k]) = DOMAIN documents[k].metadata
                 /\ \A key \in OwnKeys(meta.data[k]) :
                       meta.data[k][key] = documents[k].metadata[key]

\* C3 amended: the remaining fields are the document's metadata without its
\* keys "id" and "text", which the entry's own id and text replace.
C3_MetadataProjection ==
    Returned(1) =>
        LET documents == bld[1].documents
            meta == StoreOf(1).meta
        IN /\ meta.st = "full"
           /\ Len(meta.data) = Len(documents)
           /\ \A k \in 1..Len(documents) :
                 /\ meta.data[k]["id"] = k - 1
                 /\ meta.data[k]["text"] = documents[k].text
                 /\ OwnKeys(meta.data[k]) = OwnKeys(documents[k].metadata)
                 /\ \A key \in OwnKeys(meta.data[k]) :
                       meta.data[k][key] = documents[k].metadata[key]

\* Two documents were persisted, the second with a metadata key "id".
C3_Witness ==
    /\ Returned(1)
    /\ Len(bld[1].documents) = 2
    /\ "id" \in DOMAIN bld[1].documents[2].metadata
    /\ StoreOf(1).meta.st = "full"
    /\ Len(StoreOf(1).meta.data) = 2

\* C4: in the store a build persisted for n vectors, the index holds the
\* identifiers 0..n-1, the vector under identifier i is vectors[i] (the
\* float32 array the build makes of its embeddings), the metadata entry
\* with id i describes documents[i], and no index file written in full
\* holds fewer than the n vectors.
C4_DenseAlignedIds ==
    /\ Returned(1) =>
          LET documents == bld[1].documents
              vectors == ToFloat32(bld[1].embeddings)
              n == Len(vectors)
              index == StoreOf(1).index
              meta == StoreOf(1).meta
          IN /\ index.st = "full" /\ meta.st = "full"
             /\ {index.data[k].id : k \in 1..Len(index.data)} = 0..(n - 1)
             /\ Len(index.data) = n
             /\ \A i \in 0..(n - 1) :
                   /\ \A k \in 1..Len(index.data) :
                         index.data[k].id = i => index.data[k].vector = vectors[i + 1]
                   /\ \A k \in 1..Len(meta.data) :
                         meta.data[k]["id"] = i => meta.data[k]["text"] = documents[i + 1].text
                   /\ \E k \in 1..Len(meta.data) : meta.data[k]["id"] = i
    /\ \A name \in DOMAIN fs :
          (fs[name].index.st = "full" /\ fs[name].index.by = 1) =>
              Len(fs[name].index.data) = Len(bld[1].embeddings)

\* A store of two vectors was persisted, one of them changed by float32.
C4_Witness ==
    /\ Returned(1)
    /\ bld[1].embeddings = <<(<<2>>), (<<1>>)>>
    /\ StoreOf(1).index.data = <<[id |-> 0, vector |-> <<2>>], [id |-> 1, vector |-> <<0>>]>>

\* C9: the name a build returns is the directory it wrote; it is the
\* requested name exactly when nothing of that name existed, and otherwise
\* the requested name, "_" and one suffix of SuffixLen characters, the
\* entry of the requested name being left as it was.
C9_ResolvedName ==
    Returned(1) =>
        LET name == bld[1].final_name
            requested == bld[1].store_name
        IN /\ name \in DOMAIN fs
           /\ fs[name].kind = "dir"
           /\ fs[name].index = FullFile(bld[1].index, 1)
           /\ fs[name].meta = FullFile(bld[1].metadata_list, 1)
           /\ (name = requested) <=> (requested \notin DOMAIN fs0)
           /\ name # requested =>
                 /\ \E suffix \in [1..SuffixLen -> Alphabet] :
                       name = requested \o <<"_">> \o suffix
                 /\ Len(name) = Len(requested) + 1 + SuffixLen
                 /\ SuffixLen > 0
                 /\ fs[requested] = fs0[requested]
           /\ \A other \in DOMAIN fs0 : fs[other] = fs0[other]

\* A build that found the requested name taken returned a suffixed name.
C9_Witness ==
    /\ Returned(1)
    /\ StoreName \in DOMAIN fs0
    /\ bld[1].final_name = <<"store1", "_", "A", "0", "0", "A">>
    /\ fs[StoreName] = ForeignDir

\* C7: the names returned by successful sequential builds of one requested
\* name are pairwise distinct, and every store an earlier build wrote is
\* still there, index and metadata unchanged.
C7_DistinctNamesStoresKept ==
    /\ \A i, j \in 1..Len(stores) : i # j => stores[i].name # stores[j].name
    /\ \A i \in 1..Len(stores) :
          /\ stores[i].name \in DOMAIN fs
          /\ fs[stores[i].name] = stores[i].entry
          /\ stores[i].entry.index.by = stores[i].by
          /\ stores[i].entry.meta.by = stores[i].by
    /\ \A name \in DOMAIN fs0 : name \in DOMAIN fs /\ fs[name] = fs0[name]

\* Two builds have returned and the second is under a suffixed name.
C7_Witness ==
    /\ Len(stores) = 2
    /\ fs0 = EmptyFn
    /\ stores[1].name = StoreName
    /\ stores[2].name # StoreName
    /\ bld[1].id = 2 /\ Returned(1)

\* C8 as stated: whenever a build creates its store directory, nothing of
\* that name exists, and no two builds write into one directory.
C8_FreshDirectoryOneWriter ==
    /\ \A k \in 1..Len(mkdirs) : ~mkdirs[k].existed
    /\ \A j, k \in 1..Len(mkdirs) : j # k => mkdirs[j].name # mkdirs[k].name

----------------------------------------------------------------------------
(* Claims about run_pipeline *)

\* The store a finished run names.
RunStore == fs[run.store_name]

\* The stages hand the same sequence on: one text per collected document,
\* one batch position per text, one persisted entry per document, in order.
StagesAligned ==
    LET n == Len(run.documents) IN
    /\ Len(run.texts) = n
    /\ \A i \in 1..n : run.texts[i] = run.documents[i].text
    /\ AllBatches = run.texts
    /\ Len(AllReturnedVectors) = n
    /\ run.embeddings = AllReturnedVectors
    /\ RunStore.meta.st = "full" /\ RunStore.index.st = "full"
    /\ Len(RunStore.meta.data) = n
    /\ Len(RunStore.index.data) = n
    /\ \A i \in 1..n :
          /\ RunStore.meta.data[i]["id"] = i - 1
          /\ RunStore.meta.data[i]["text"] = run.documents[i].text
          /\ RunStore.index.data[i].id = i - 1

\* C5 as stated: in a run that reached Done the entry with id i carries the
\* text of the i-th collected document and the index vector with id i is
\* the vector the service returned for that text.
C5_Original ==
    run.stage = "Done" =>
        /\ StagesAligned
        /\ \A i \in 1..Len(run.documents) :
              RunStore.index.data[i].vector = AllReturnedVectors[i]

\* C5 amended: the index vector with id i is the float32 conversion of the
\* vector the service returned for the i-th text; the order of documents,
\* texts, vectors and entries is one and the same.
C5_PipelineAlignment ==
    run.stage = "Done" =>
        /\ StagesAligned
        /\ \A i \in 1..Len(run.documents) :
              /\ Len(RunStore.index.data[i].vector) = Len(AllReturnedVectors[i])
              /\ \A j \in 1..Len(AllReturnedVectors[i]) :
                    RunStore.index.data[i].vector[j] = F32(AllReturnedVectors[i][j])

\* A run over all three sources reached Done with four entries, the
\* service having answered <<1>>, <<2>>, <<2>>, <<1>>.
C5_Witness ==
    /\ run.stage = "Done"
    /\ Len(run.documents) = 4
    /\ AllReturnedVectors = <<(<<1>>), (<<2>>), (<<2>>), (<<1>>)>>
    /\ Len(requests) = 2

\* A store directory holding both files in full, written by one build.
Complete(entry) ==
    /\ entry.kind = "dir"
    /\ entry.index.st = "full"
    /\ entry.meta.st = "full"
    /\ entry.index.by = entry.meta.by
    /\ Len(entry.index.data) = Len(entry.meta.data)

\* What the run added to the base directory or changed in it.
Touched == {name \in DOMAIN fs : name \notin DOMAIN fs0 \/ fs[name] # fs0[name]}

\* C6 as stated: after a run or a build that failed, the base directory
\* holds a complete store directory of the run or none at all.
C6_NoPartialPersistence ==
    (run.stage = "Failed" \/ bld[1].pc = "raised") =>
        \A name \in Touched : Complete(fs[name])

\* A batch whose answer parsed to another number of vectors than texts sent.
CountMismatch(r) ==
    /\ r.outcome.kind = "json"
    /\ \A i \in 1..Len(DataOf(r.outcome)) :
          \/ DataOf(r.outcome)[i].shape = "list"
          \/ DataOf(r.outcome)[i].shape = "dict" /\ DataOf(r.outcome)[i].has_embedding
    /\ Len(DataOf(r.outcome)) # Len(r.batch)

\* C10: once a batch's parsed answer holds another number of vectors than
\* texts sent (an answer without "data" included), embed_documents has
\* raised the count error and returned no vectors, the run fails with that
\* error, build is never called and no directory is created.
C10_CountMismatchStopsRun ==
    (\E k \in 1..Len(requests) : CountMismatch(requests[k])) =>
        /\ emb.pc = "raised"
        /\ emb.err = CountError
        /\ emb.result = <<>>
        /\ run.stage \in {"Embedding", "Failed"}
        /\ run.stage = "Failed" => run.err = CountError
        /\ run.embeddings = <<>>
        /\ bld[1].pc = "idle"
        /\ mkdirs = <<>>
        /\ stores = <<>>
        /\ fs = fs0

\* The second batch of a run was answered with one vector for two texts
\* and the run has failed.
C10_Witness ==
    /\ run.stage = "Failed"
    /\ Len(requests) = 2
    /\ Len(requests[2].batch) = 2
    /\ Len(requests[2].outcome.data) = 1
    /\ CountMismatch(requests[2])

\* A run failed on an answer without a "data" field.
C10_WitnessNoData ==
    /\ run.stage = "Failed"
    /\ Len(requests) = 1
    /\ ~requests[1].outcome.has_data
    /\ requests[1].outcome.kind = "json"

----------------------------------------------------------------------------
(* Claims about the failures of embed_documents *)

\* The request was answered by an exception of post, raise_for_status or json.
Failed(r) == r.outcome.kind = "exception"

\* The answer is a JSON object whose items are all of an accepted shape.
ItemsAcceptable(r) ==
    /\ r.outcome.kind = "json"
    /\ \A i \in 1..Len(DataOf(r.outcome)) :
          \/ DataOf(r.outcome)[i].shape = "list"
          \/ DataOf(r.outcome)[i].shape = "dict" /\ DataOf(r.outcome)[i].has_embedding

\* C11: once the request of batch k has failed in transport, HTTP status or
\* decoding, embed_documents has raised that failure and returned nothing
\* (the vectors gathered from batches 1..k-1 are not returned), batch k was
\* requested once, and batch k is the last batch requested.
C11_ServiceFailureAborts ==
    \A k \in 1..Len(requests) :
        Failed(requests[k]) =>
            /\ emb.pc = "raised"
            /\ emb.err.type = requests[k].outcome.exc
            /\ emb.err.type \in Exceptions
            /\ emb.result = <<>>
            /\ k = Len(requests)
            /\ \A j \in 1..(k - 1) :
                  /\ ~Failed(requests[j])
                  /\ requests[j].batch # requests[k].batch
            /\ Cardinality({j \in 1..Len(requests) : requests[j].batch = requests[k].batch}) = 1
            /\ emb.start = (k - 1) * config.batch_size
            /\ Len(emb.embeddings) = emb.start

\* The second of three batches failed after the first had given its vector.
C11_Witness ==
    /\ emb.pc = "raised"
    /\ Len(emb.documents) = 3
    /\ config.batch_size = 1
    /\ Len(requests) = 2
    /\ Failed(requests[2])
    /\ requests[2].outcome.exc = "HTTPError"
    /\ emb.embeddings = <<(<<2>>)>>
    /\ emb.result = <<>>

\* The kind of failure an answer calls for, read off the wire.
FailureOf(r) ==
    IF Failed(r) THEN "service"
    ELSE IF ~ItemsAcceptable(r) THEN "format"
    ELSE IF Len(DataOf(r.outcome)) # Len(r.batch) THEN "count"
    ELSE "none"

\* The kind of failure a caller reads off the exception.
KindOf(err) ==
    IF err.type \in Exceptions THEN "service"
    ELSE IF err.type = "ValueError" /\ err.msg = "Unexpected embedding format returned from the API"
    THEN "format"
    ELSE IF err.type = "ValueError" /\ err.msg = "Expected n embeddings, got m"
    THEN "count"
    ELSE "none"

\* C12: an answer is parsed without the format error exactly when each of
\* its items is a list or an object with "embedding"; an answer holding an
\* item of another shape makes embed_documents raise the format error,
\* whatever the number of its items, and the exception raised tells the
\* format failure from the count failure and from the service failure.
C12_FormatErrorDistinct ==
    /\ \A k \in 1..Len(requests) :
          (requests[k].outcome.kind = "json" /\ ~ItemsAcceptable(requests[k])) =>
              /\ emb.pc = "raised"
              /\ KindOf(emb.err) = "format"
              /\ emb.result = <<>>
              /\ k = Len(requests)
    /\ emb.pc = "raised" =>
          /\ requests # <<>>
          /\ KindOf(emb.err) = FailureOf(requests[Len(requests)])
          /\ KindOf(emb.err) # "none"
    /\ emb.pc \in {"loop", "returned"} =>
          \A k \in 1..Len(requests) : FailureOf(requests[k]) = "none"

\* An answer of the right length with an object without "embedding" in it
\* has raised the format error.
C12_Witness ==
    /\ emb.pc = "raised"
    /\ Len(requests) = 1
    /\ Len(requests[1].batch) = 2
    /\ Len(requests[1].outcome.data) = 2
    /\ requests[1].outcome.data[1].shape = "list"
    /\ requests[1].outcome.data[2].shape = "dict"
    /\ ~requests[1].outcome.data[2].has_embedding
    /\ emb.err.msg = "Unexpected embedding format returned from the API"

----------------------------------------------------------------------------
(* Claims about the preconditions of build *)

\* The build has done nothing outside its own validation: no index, no
\* metadata list, no name, no directory, no file.
NothingBuilt ==
    /\ bld[1].pc \in {"entry", "raised"}
    /\ bld[1].index = <<>>
    /\ bld[1].metadata_list = <<>>
    /\ bld[1].final_name = <<>>
    /\ mkdirs = <<>>
    /\ stores = <<>>
    /\ fs = fs0

CardinalityMsg == "Number of documents does not match number of embeddings"

EmptyInputMsg == "Cannot build vector store with no embeddings"

\* C13: a build called with sequences of different lengths raises the
\* cardinality error, whichever is the longer and also when one of them is
\* empty; it builds no index and creates no directory.
C13_CardinalityError ==
    Len(bld[1].documents) # Len(bld[1].embeddings) =>
        /\ NothingBuilt
        /\ bld[1].pc = "raised" =>
              /\ bld[1].err.type = "ValueError"
              /\ bld[1].err.msg = CardinalityMsg

\* Two documents with one vector raised the cardinality error.
C13_Witness ==
    /\ bld[1].pc = "raised"
    /\ Len(bld[1].documents) = 2
    /\ Len(bld[1].embeddings) = 1
    /\ bld[1].err.msg = CardinalityMsg
    /\ fs = fs0

\* No documents with two vectors raised the cardinality error.
C13_WitnessNoDocuments ==
    /\ bld[1].pc = "raised"
    /\ bld[1].documents = <<>>
    /\ Len(bld[1].embeddings) = 2
    /\ bld[1].err.msg = CardinalityMsg

\* C14 as stated: a build called with no vectors raises the empty-input
\* error, whatever the documents.
C14_Original ==
    (bld[1].embeddings = <<>> /\ bld[1].pc # "entry") =>
        /\ bld[1].pc = "raised"
        /\ bld[1].err.msg = EmptyInputMsg

\* C14 amended: a build called with no vectors raises the empty-input error
\* when it is called with no documents either, and the cardinality error
\* when there are documents; in both cases nothing is built, the two errors
\* differ, and the empty-input error is raised in no other case.
C14_EmptyInputError ==
    /\ (bld[1].embeddings = <<>> /\ bld[1].pc # "entry") =>
          /\ NothingBuilt
          /\ bld[1].pc = "raised"
          /\ bld[1].err.type = "ValueError"
          /\ bld[1].documents = <<>> => bld[1].err.msg = EmptyInputMsg
          /\ bld[1].documents # <<>> => bld[1].err.msg = CardinalityMsg
    /\ (bld[1].pc = "raised" /\ bld[1].err.msg = EmptyInputMsg) =>
          /\ bld[1].embeddings = <<>>
          /\ bld[1].documents = <<>>
          /\ bld[1].err.msg # CardinalityMsg

\* A build with no documents and no vectors raised the empty-input error.
C14_Witness ==
    /\ bld[1].pc = "raised"
    /\ bld[1].documents = <<>>
    /\ bld[1].embeddings = <<>>
    /\ bld[1].err.msg = EmptyInputMsg
    /\ fs = fs0

----------------------------------------------------------------------------
(* Claims about the stages of a run *)

\* The steps from one stage to another that the claim allows.
StageSteps ==
    {<<"Collecting", "Extracting">>, <<"Extracting", "Embedding">>,
     <<"Embedding", "Indexing">>, <<"Indexing", "Done">>}
    \cup {<<s, "Failed">> : s \in {"Collecting", "Extracting", "Embedding", "Indexing"}}

\* C15: every step of a run stays in its stage, or moves to the next stage
\* of Collecting, Extracting, Embedding, Indexing, Done, or moves to Failed;
\* so each stage is visited at most once and in that order.  Documents are
\* collected only in Collecting, requests are posted only in Embedding, the
\* build and the base directory move only in Indexing.  Once embed_documents
\* or build has raised, the only step left is the one to Failed, and it
\* records the error; from Done and from Failed nothing moves any more.
C15_StageOrder ==
    [][/\ run.stage' # run.stage => <<run.stage, run.stage'>> \in StageSteps
       /\ run.stage \in {"Done", "Failed"} => vars' = vars
       /\ run.calls' # run.calls => run.stage = "Collecting"
       /\ requests' # requests => (run.stage = "Embedding" /\ run.stage' = "Embedding")
       /\ emb' # emb => run.stage \in {"Extracting", "Embedding"}
       /\ bld' # bld => (run.stage \in {"Embedding", "Indexing"} /\ run.stage' = "Indexing")
       /\ (fs' # fs \/ mkdirs' # mkdirs \/ stores' # stores) => run.stage = "Indexing"
       /\ (emb.pc = "raised" \/ bld[1].pc = "raised") =>
             (run.stage' = "Failed" /\ run.err' # NoError /\ requests' = requests /\ fs' = fs)
       /\ run.stage' = "Failed" => run.err' # NoError
       /\ run.stage' = "Done" => (run.err' = NoError /\ bld[1].pc = "returned")
      ]_vars

\* A run went through every stage: it collected, posted two requests,
\* wrote one store and is Done.
C15_Witness ==
    /\ run.stage = "Done"
    /\ run.calls = <<"files", "git", "wiki">>
    /\ Len(requests) = 2
    /\ Len(stores) = 1
    /\ run.store_name = bld[1].final_name

\* A run failed in Indexing after its requests had been answered.
C15_WitnessFailed ==
    /\ run.stage = "Failed"
    /\ requests # <<>>
    /\ bld[1].pc = "raised"
    /\ run.err = bld[1].err

----------------------------------------------------------------------------
(* Claims about collect_documents *)

\* A file that gives its parser nothing: no parser for its extension, or
\* not a file any more, or not readable.
SilentFile(file) ==
    \/ Lower(file.ext) \notin DOMAIN Registry
    \/ file.stat = "gone"
    \/ ~file.opens

\* The configured sources yield no document: each is not configured, or
\* finds nothing (the location does not exist, no file gives anything, the
\* listing of the space fails, no page can be fetched).
YieldNothing(cfg) ==
    /\ \/ cfg.files.kind \in {"none", "missing"}
       \/ \A i \in 1..Len(cfg.files.entries) : SilentFile(cfg.files.entries[i])
    /\ \/ ~cfg.git.configured
       \/ cfg.git.clones /\ \A i \in 1..Len(cfg.git.files) : SilentFile(cfg.git.files[i])
    /\ \/ ~cfg.wiki.configured
       \/ ~cfg.wiki.lists
       \/ \A i \in 1..Len(cfg.wiki.pages) : ~cfg.wiki.pages[i].ok

NoDocumentsMsg == "No documents were collected"

\* C16: a run whose sources together yield no document (no source
\* configured and a files_location that does not exist included) never
\* posts a request, never calls build and never creates a directory, and
\* once collection is over it has failed with the no-documents error; the
\* no-documents error is raised in no other case.
C16_NoDocumentsError ==
    /\ YieldNothing(config) =>
          /\ run.stage \in {"Collecting", "Failed"}
          /\ run.stage = "Failed" =>
                (run.err.type = "RuntimeError" /\ run.err.msg = NoDocumentsMsg)
          /\ run.documents = <<>>
          /\ requests = <<>>
          /\ emb = IdleEmb
          /\ bld[1] = IdleBuilder
          /\ mkdirs = <<>>
          /\ fs = fs0
    /\ run.err.msg = NoDocumentsMsg =>
          /\ YieldNothing(config)
          /\ run.stage = "Failed"
          /\ run.documents = <<>>

\* A run whose files_location does not exist and whose wiki space cannot
\* be listed has failed with the no-documents error.
C16_Witness ==
    /\ run.stage = "Failed"
    /\ config.files.kind = "missing"
    /\ ~config.git.configured
    /\ config.wiki.configured /\ ~config.wiki.lists
    /\ run.calls = <<"wiki">>
    /\ run.err.msg = NoDocumentsMsg
    /\ requests = <<>>

\* A run with no source configured has failed with the no-documents error.
C16_WitnessNoSource ==
    /\ run.stage = "Failed"
    /\ config.files.kind = "none"
    /\ ~config.git.configured
    /\ ~config.wiki.configured
    /\ run.calls = <<>>
    /\ run.err.msg = NoDocumentsMsg

\* The texts the sources can give, in the order of the sources and, inside
\* a source, of its listing.
AllSourceTexts ==
    Flatten(FileTexts) \o Flatten(GitTexts) \o <<"w1", "w2", "w3">>

TextRank(text) == CHOOSE i \in 1..Len(AllSourceTexts) : AllSourceTexts[i] = text

SourceRank(name) == CASE name = "files" -> 1 [] name = "git" -> 2 [] OTHER -> 3

\* The source a document comes from, read off its metadata.
SourceOf(doc) ==
    IF "page_id" \in DOMAIN doc.metadata THEN "wiki"
    ELSE IF doc.metadata["file_path"][1] \in {GitStems[i] : i \in 1..Len(GitStems)} THEN "git"
    ELSE "files"

\* The documents that carry a text (a PDF page that failed carries none).
WithText(documents) == SelectSeq(documents, LAMBDA doc : doc.text # "")

\* C17: the sources are invoked in the order filesystem, repository, wiki,
\* each at most once and only when configured; the documents collected so
\* far are those of the sources invoked so far, every filesystem document
\* before every repository document before every wiki document, the order
\* of each source's listing kept, and no document twice.
C17_SourceOrder ==
    /\ \A i, j \in 1..Len(run.calls) :
          i < j => SourceRank(run.calls[i]) < SourceRank(run.calls[j])
    /\ \A i \in 1..Len(run.calls) :
          \/ run.calls[i] = "files" /\ config.files.kind \in {"file", "dir"}
          \/ run.calls[i] = "git" /\ config.git.configured
          \/ run.calls[i] = "wiki" /\ config.wiki.configured
    /\ run.stage = "Extracting" =>
          /\ config.files.kind \in {"file", "dir"} <=> \E i \in 1..Len(run.calls) : run.calls[i] = "files"
          /\ config.git.configured <=> \E i \in 1..Len(run.calls) : run.calls[i] = "git"
          /\ config.wiki.configured <=> \E i \in 1..Len(run.calls) : run.calls[i] = "wiki"
    /\ \A i, j \in 1..Len(run.documents) :
          i < j => SourceRank(SourceOf(run.documents[i])) <= SourceRank(SourceOf(run.documents[j]))
    /\ \A i \in 1..Len(run.documents) :
          \E k \in 1..Len(run.calls) : run.calls[k] = SourceOf(run.documents[i])
    /\ LET texts == TextsOf(WithText(run.documents)) IN
       \A i, j \in 1..Len(texts) : i < j => TextRank(texts[i]) < TextRank(texts[j])
    /\ run.stage = "Extracting" =>
          /\ \A i \in 1..Len(config.files.entries) :
                LET file == config.files.entries[i] IN
                (Lower(file.ext) \in {".txt", ".md"} /\ file.stat = "file" /\ file.opens) =>
                    \E k \in 1..Len(run.documents) :
                        /\ run.documents[k].text = file.parts[1].text
                        /\ SourceOf(run.documents[k]) = "files"
          /\ (config.wiki.configured /\ config.wiki.lists) =>
                \E k \in 1..Len(run.documents) : SourceOf(run.documents[k]) = "wiki"
          /\ config.git.configured =>
                \E k \in 1..Len(run.documents) : SourceOf(run.documents[k]) = "git"

\* All three sources were invoked and gave documents: two files, a
\* repository file, a wiki page, collected in that order.
C17_Witness ==
    /\ run.stage = "Extracting"
    /\ run.calls = <<"files", "git", "wiki">>
    /\ TextsOf(run.documents) = <<"f1p1", "f2p1", "g1p1", "w1">>

\* collect_documents has returned its documents.
CollectionReturned == run.collected # <<>>

WithoutKey(f, key) == [k \in DOMAIN f \ {key} |-> f[k]]

\* C18: with a session identifier configured, no document carries it while
\* the sources are being collected, and once collect_documents has returned
\* every document, whatever its source, has metadata["session_id"] equal to
\* the identifier and its other metadata as collected; every entry of the
\* persisted metadata carries it.  With none configured the documents are
\* returned as collected and no entry has the key.
C18_SessionStamp ==
    /\ run.stage = "Collecting" =>
          \A k \in 1..Len(run.documents) : "session_id" \notin DOMAIN run.documents[k].metadata
    /\ CollectionReturned =>
          /\ Len(run.documents) = Len(run.collected)
          /\ \A k \in 1..Len(run.documents) :
                /\ run.documents[k].text = run.collected[k].text
                /\ IF config.session_id # ""
                   THEN /\ "session_id" \in DOMAIN run.documents[k].metadata
                        /\ run.documents[k].metadata["session_id"] = config.session_id
                        /\ WithoutKey(run.documents[k].metadata, "session_id")
                              = WithoutKey(run.collected[k].metadata, "session_id")
                   ELSE run.documents[k] = run.collected[k]
    /\ run.stage = "Done" =>
          /\ Len(RunStore.meta.data) = Len(run.collected)
          /\ \A k \in 1..Len(RunStore.meta.data) :
                IF config.session_id # ""
                THEN /\ "session_id" \in DOMAIN RunStore.meta.data[k]
                     /\ RunStore.meta.data[k]["session_id"] = config.session_id
                ELSE "session_id" \notin DOMAIN RunStore.meta.data[k]

\* A run with session identifier S1 over files, repository and wiki is
\* Done, and the entry of the wiki page carries S1.
C18_Witness ==
    /\ run.stage = "Done"
    /\ config.session_id = "S1"
    /\ run.calls = <<"files", "git", "wiki">>
    /\ Len(RunStore.meta.data) = 4
    /\ RunStore.meta.data[4]["session_id"] = "S1"
    /\ RunStore.meta.data[4]["page_id"] = "p1"
    /\ RunStore.meta.data[1]["session_id"] = "S1"

\* A run without session identifier is Done and its entries have no such key.
C18_WitnessNone ==
    /\ run.stage = "Done"
    /\ config.session_id = ""
    /\ Len(RunStore.meta.data) = 4
    /\ "session_id" \notin DOMAIN RunStore.meta.data[1]

----------------------------------------------------------------------------
(* Claims about the files of the filesystem source *)

Range(seq) == {seq[i] : i \in 1..Len(seq)}

\* The extension, compared case-insensitively, is in the parser registry.
Supported(file) == Lower(file.ext) \in DOMAIN Registry

\* The documents a file contributed, by the path in their metadata.
DocsOf(file) ==
    SelectSeq(run.documents,
              LAMBDA doc : "file_path" \in DOMAIN doc.metadata
                           /\ doc.metadata["file_path"] = PathStr(file))

\* The filesystem source has been gone through, to its end or to an exception.
FilesWalked ==
    /\ config.files.kind \in {"file", "dir"}
    /\ run.pc # "files" \/ run.stage = "Failed"

\* parser.parse raises on this file instead of returning.
Raises(file) ==
    /\ Supported(file)
    /\ \/ file.stat = "denied"
       \/ Lower(file.ext) = ".docx" /\ file.stat = "file" /\ file.opens
          /\ \E j \in 1..Len(file.parts) : ~file.parts[j].ok

\* C19 as stated: once the filesystem source has been gone through, a file
\* whose extension is not in the registry was offered to no parser and
\* contributed no document, for a single file and for a directory alike,
\* and every other file of the listing was offered to its parser.
C19_UnsupportedSkipped ==
    FilesWalked =>
        \A i \in 1..Len(config.files.entries) :
            LET file == config.files.entries[i] IN
            IF Supported(file)
            THEN PathStr(file) \in Range(run.offered)
            ELSE /\ PathStr(file) \notin Range(run.offered)
                 /\ DocsOf(file) = <<>>

\* What holds of the code: an unsupported file is offered to no parser and
\* contributes nothing, and it never keeps a later file from its parser;
\* a supported file is not offered only when the parser of an earlier file
\* raised and ended the walk.
UnsupportedNeverBlocks ==
    FilesWalked =>
        \A i \in 1..Len(config.files.entries) :
            LET file == config.files.entries[i] IN
            IF Supported(file)
            THEN \/ PathStr(file) \in Range(run.offered)
                 \/ \E j \in 1..(i - 1) : Raises(config.files.entries[j])
            ELSE /\ PathStr(file) \notin Range(run.offered)
                 /\ DocsOf(file) = <<>>
                 /\ \/ PathStr(file) \in Range(run.skipped)
                    \/ \E j \in 1..(i - 1) : Raises(config.files.entries[j])

\* A failure inside the file: it is gone or denied, or cannot be opened or
\* read, or one of its parts cannot be parsed.
FailsInside(file) ==
    /\ Supported(file)
    /\ \/ file.stat # "file"
       \/ ~file.opens
       \/ \E j \in 1..Len(file.parts) : ~file.parts[j].ok

\* C20 as stated: a failure inside one file or one wiki page never makes
\* collect_documents raise; the file or page contributes no document, every
\* other file is offered to its parser and every later source is invoked;
\* a space that cannot be listed gives no document and raises nothing.
C20_FailuresAbsorbed ==
    /\ run.err # ParseError
    /\ FilesWalked =>
          \A i \in 1..Len(config.files.entries) :
              LET file == config.files.entries[i] IN
              /\ FailsInside(file) => DocsOf(file) = <<>>
              /\ Supported(file) => PathStr(file) \in Range(run.offered)
    /\ run.pc = "check" =>
          /\ config.git.configured => "git" \in Range(run.calls)
          /\ config.wiki.configured => "wiki" \in Range(run.calls)
          /\ \A i \in 1..Len(config.wiki.pages) :
                ~config.wiki.pages[i].ok =>
                    \A k \in 1..Len(run.documents) :
                        "page_id" \in DOMAIN run.documents[k].metadata =>
                            run.documents[k].metadata["page_id"] # config.wiki.pages[i].page_id
          /\ (config.wiki.configured /\ ~config.wiki.lists) =>
                \A k \in 1..Len(run.documents) : "page_id" \notin DOMAIN run.documents[k].metadata

\* What holds of the code for the failures the parsers and the wiki handler
\* catch: a file that is gone or cannot be opened contributes nothing, a
\* page that cannot be fetched contributes nothing, a space that cannot be
\* listed contributes nothing, and collection goes on.
CaughtFailuresAbsorbed ==
    /\ FilesWalked =>
          \A i \in 1..Len(config.files.entries) :
              LET file == config.files.entries[i] IN
              (Supported(file) /\ (file.stat = "gone" \/ (file.stat = "file" /\ ~file.opens))) =>
                  DocsOf(file) = <<>>
    /\ run.err = ParseError =>
          \/ \E i \in 1..Len(config.files.entries) : Raises(config.files.entries[i])
          \/ \E i \in 1..Len(config.git.files) : Raises(config.git.files[i])
    /\ run.pc = "check" =>
          /\ config.wiki.configured => "wiki" \in Range(run.calls)
          /\ (config.wiki.configured /\ ~config.wiki.lists) =>
                \A k \in 1..Len(run.documents) : "page_id" \notin DOMAIN run.documents[k].metadata

----------------------------------------------------------------------------
(* Claims about the dimension of a store *)

\* The rows all have the length of the first.
OneLength(rows) == \A k \in 1..Len(rows) : Len(rows[k]) = Len(rows[1])

\* C21: every index file a run has written in full holds one vector per
\* embedding, each of the length of the first embedding (the dimension of
\* the index); a build whose embeddings are not all of the length of the
\* first raises, creates no directory, writes no file and returns no store.
C21_UniformDimension ==
    /\ \A name \in DOMAIN fs :
          (fs[name].index.st = "full" /\ fs[name].index.by = 1) =>
              /\ Len(fs[name].index.data) = Len(bld[1].embeddings)
              /\ \A k \in 1..Len(fs[name].index.data) :
                    Len(fs[name].index.data[k].vector) = Len(bld[1].embeddings[1])
    /\ \A k \in 1..Len(stores) :
          \A i \in 1..Len(stores[k].entry.index.data) :
              Len(stores[k].entry.index.data[i].vector) = Len(stores[k].entry.index.data[1].vector)
    /\ (bld[1].pc \notin {"idle", "entry"} /\ ~OneLength(bld[1].embeddings)) =>
          /\ bld[1].pc = "raised"
          /\ bld[1].index = <<>>
          /\ mkdirs = <<>>
          /\ stores = <<>>
          /\ fs = fs0
          /\ run.stage \in {"Indexing", "Failed"}

\* A run has persisted two vectors of length two.
C21_Witness ==
    /\ run.stage = "Done"
    /\ Len(RunStore.index.data) = 2
    /\ Len(RunStore.index.data[1].vector) = 2
    /\ Len(RunStore.index.data[2].vector) = 2

\* A run whose service answered vectors of lengths one and two has failed
\* in the build, the base directory as it was.
C21_WitnessRagged ==
    /\ run.stage = "Failed"
    /\ bld[1].pc = "raised"
    /\ bld[1].embeddings = <<(<<1>>), (<<2, 1>>)>>
    /\ fs = fs0

----------------------------------------------------------------------------
(* Claims about the request of a batch *)

\* C22 as stated: every request posted carries the texts of its batch, in
\* order, under "input", and every parameter of model_kwargs under its own
\* key; no parameter takes the place of the texts.
C22_RequestCarriesBatch ==
    \A k \in 1..Len(requests) :
        LET payload == requests[k].payload IN
        /\ DOMAIN payload = {"input"} \cup DOMAIN config.model_kwargs
        /\ payload["input"] = requests[k].batch
        /\ \A key \in DOMAIN config.model_kwargs \ {"input"} :
              payload[key] = config.model_kwargs[key]

\* What holds of the code: the parameters of model_kwargs are all in the
\* request as given, and the texts of the batch are under "input" exactly
\* when model_kwargs has no parameter of that name.
PayloadUpdatedByKwargs ==
    \A k \in 1..Len(requests) :
        LET payload == requests[k].payload IN
        /\ DOMAIN payload = {"input"} \cup DOMAIN config.model_kwargs
        /\ \A key \in DOMAIN config.model_kwargs : payload[key] = config.model_kwargs[key]
        /\ "input" \notin DOMAIN config.model_kwargs => payload["input"] = requests[k].batch
        /\ "input" \in DOMAIN config.model_kwargs => payload["input"] # requests[k].batch

----------------------------------------------------------------------------
(* Claims about the documents after their creation *)

\* The document with the session identifier written into its metadata and
\* nothing else changed.
WithSession(doc, session_id) ==
    [text |-> doc.text,
     metadata |-> [k \in DOMAIN doc.metadata \cup {"session_id"} |->
                      IF k = "session_id" THEN session_id ELSE doc.metadata[k]]]

\* The documents of the run are, one for one, those the sources created,
\* but for the session identifier when one is configured.
AsCreated ==
    /\ Len(run.documents) = Len(run.collected)
    /\ \A k \in 1..Len(run.documents) :
          run.documents[k] =
              (IF config.session_id # ""
               THEN WithSession(run.collected[k], config.session_id)
               ELSE run.collected[k])

\* C23: a document is changed at most once after its creation, by the
\* session identifier written at the end of collect_documents: while the
\* sources are collected the documents gathered so far stay as they are and
\* new ones are appended; after the return of collect_documents no step of
\* the run, of embed_documents or of build changes a document; build works
\* on the documents of the run and leaves them as it got them, so that no
\* document has a key "text" or "id" in its metadata although every
\* persisted entry has both.
C23_DocumentsUnchanged ==
    /\ [][/\ run.stage = "Collecting" /\ run'.stage = "Collecting" =>
                /\ Len(run'.documents) >= Len(run.documents)
                /\ SubSeq(run'.documents, 1, Len(run.documents)) = run.documents
          /\ run.stage # "Collecting" => run'.documents = run.documents
          /\ run.stage # "Collecting" => run'.collected = run.collected
          /\ bld[1].pc # "idle" => bld'[1].documents = bld[1].documents
          /\ (bld[1].pc = "idle" /\ bld'[1].pc # "idle") => bld'[1].documents = run.documents
          /\ emb.pc # "idle" => emb'.documents = emb.documents
         ]_vars
    /\ [](/\ CollectionReturned => AsCreated
          /\ bld[1].pc # "idle" => bld[1].documents = run.documents
          /\ emb.pc # "idle" => emb.documents = TextsOf(run.documents)
          /\ \A k \in 1..Len(run.documents) :
                /\ "text" \notin DOMAIN run.documents[k].metadata
                /\ "id" \notin DOMAIN run.documents[k].metadata
          /\ run.stage = "Done" =>
                \A k \in 1..Len(RunStore.meta.data) :
                    /\ "text" \in DOMAIN RunStore.meta.data[k]
                    /\ "id" \in DOMAIN RunStore.meta.data[k]
                    /\ bld[1].documents[k] = run.documents[k])

\* A run with a session identifier is Done: its store has entries with
\* "text" and "id", and its documents have the session identifier as their
\* only change.
C23_Witness ==
    /\ run.stage = "Done"
    /\ config.session_id = "S1"
    /\ Len(run.documents) = 4
    /\ RunStore.meta.st = "full"
    /\ RunStore.meta.data[2]["id"] = 1
    /\ run.documents[2].metadata = [file_path |-> <<"f2", ".xlsx">>, sheet_name |-> 2, session_id |-> "S1"]
    /\ run.collected[2].metadata = [file_path |-> <<"f2", ".xlsx">>, sheet_name |-> 2]
    /\ bld[1].documents = run.documents

----------------------------------------------------------------------------
(* Claims about the parameters of a run *)

\* A value of a JSON option that cannot be loaded or made into its dataclass.
Unusable(option) == option.shape \in {"not_json", "not_object", "bad_fields"}

\* The batch size given is not a positive integer.
BadBatchSize(args) ==
    args.embedding_config.shape = "object" /\ args.embedding_config.value.batch_size < 1

\* No I/O has been done: no log file or directory, no source read, no request.
NoIO ==
    /\ fs = fs0
    /\ mkdirs = <<>>
    /\ run.calls = <<>>
    /\ run.offered = <<>>
    /\ run.documents = <<>>
    /\ requests = <<>>

\* C24 as stated: with a --git_settings, --confluence_settings or
\* --embedding_config value that cannot be parsed or is ill-shaped, or with
\* a batch_size that is not a positive integer, the run fails with a
\* configuration error before any I/O.
C24_ConfigurationErrorBeforeIO ==
    (\/ Unusable(config.args.git_settings)
     \/ Unusable(config.args.confluence_settings)
     \/ Unusable(config.args.embedding_config)
     \/ BadBatchSize(config.args)) =>
        /\ run.stage \in {"Parsing", "Failed"}
        /\ run.stage = "Failed" => run.err.type = "SystemExit"
        /\ NoIO

\* What holds of the code: an option that cannot be parsed or is ill-shaped
\* ends the run in parse_args before any I/O; a batch size below one is
\* taken as it is, the log file is created and the sources are read, and
\* the run fails later, never in parse_args, without having posted a request.
UnusableOptionBeforeIO ==
    /\ (\/ Unusable(config.args.git_settings)
        \/ Unusable(config.args.confluence_settings)
        \/ Unusable(config.args.embedding_config)) =>
          /\ run.stage \in {"Parsing", "Failed"}
          /\ run.stage = "Failed" => run.err.type = "SystemExit"
          /\ NoIO
    /\ (BadBatchSize(config.args)
        /\ ~Unusable(config.args.git_settings)
        /\ ~Unusable(config.args.confluence_settings)) =>
          /\ run.stage # "Done"
          /\ run.stage # "Parsing" => LogName \in DOMAIN fs
          /\ run.stage = "Failed" => run.err.type # "SystemExit"
          /\ requests = <<>>
          /\ stores = <<>>

----------------------------------------------------------------------------
(* Claims about the order of requests and persistence *)

\* The number of texts over all the batches requested.
TextsSent == Len(AllBatches)

\* C25: in every run the store directory is created, and anything written,
\* only after every batch has been requested and answered with one
\* acceptable vector per text, embed_documents has returned, and build has
\* passed its validation and made its index; no request is posted once the
\* directory is created; and in a run that is Done the persisted metadata
\* has as many entries as documents were collected, which is the number of
\* texts sent over all batches.
C25_PersistAfterEmbedding ==
    /\ [][mkdirs # <<>> => requests' = requests]_vars
    /\ []((mkdirs # <<>> \/ stores # <<>> \/ fs # fs0) =>
             /\ run.stage \in {"Indexing", "Done", "Failed"}
             /\ emb.pc = "returned"
             /\ Len(requests) = CeilDiv(Len(run.texts), config.batch_size)
             /\ \A k \in 1..Len(requests) : WellFormedResponse(requests[k])
             /\ AllBatches = run.texts
             /\ run.embeddings = AllReturnedVectors
             /\ bld[1].pc \in {"write_index", "write_metadata", "returned", "raised"}
             /\ bld[1].embeddings # <<>>
             /\ Len(bld[1].embeddings) = Len(bld[1].documents)
             /\ OneLength(bld[1].embeddings)
             /\ Len(bld[1].index) = Len(bld[1].embeddings)
             /\ Len(bld[1].metadata_list) = Len(bld[1].documents))
    /\ [](run.stage = "Done" =>
             /\ mkdirs # <<>>
             /\ RunStore.meta.st = "full"
             /\ Len(RunStore.meta.data) = Len(run.collected)
             /\ Len(run.collected) = TextsSent)

\* A run over four documents in batches of three and one is Done: two
\* requests, then one directory, four entries.
C25_Witness ==
    /\ run.stage = "Done"
    /\ config.batch_size = 3
    /\ Len(requests) = 2
    /\ Len(requests[1].batch) = 3
    /\ Len(requests[2].batch) = 1
    /\ Len(mkdirs) = 1
    /\ Len(run.collected) = 4
    /\ Len(RunStore.meta.data) = 4

----------------------------------------------------------------------------
(* Claims about a build that fails its validation *)

\* The build has raised one of the two errors of its input validation.
ValidationFailed ==
    /\ bld[1].pc = "raised"
    /\ bld[1].err.type = "ValueError"
    /\ bld[1].err.msg \in {"Number of documents does not match number of embeddings",
                           "Cannot build vector store with no embeddings"}

\* C26: when build has failed its input validation, on a length mismatch
\* or on no vectors, the base directory is exactly as it was before the
\* call: ensure_unique_path was not called (no candidate, no name), no
\* directory was created and no file written; and a build whose input
\* fails the validation goes nowhere else.
C26_ValidationLeavesDirectory ==
    /\ ValidationFailed =>
          /\ fs = fs0
          /\ DOMAIN fs = DOMAIN fs0
          /\ mkdirs = <<>>
          /\ stores = <<>>
          /\ bld[1].candidate = <<>>
          /\ bld[1].final_name = <<>>
          /\ bld[1].index = <<>>
          /\ bld[1].metadata_list = <<>>
    /\ (Len(bld[1].documents) # Len(bld[1].embeddings) \/ bld[1].embeddings = <<>>) =>
          /\ bld[1].pc \in {"entry", "raised"}
          /\ bld[1].pc = "raised" => ValidationFailed
          /\ fs = fs0
          /\ mkdirs = <<>>

\* A build with one document and two vectors has failed its validation in
\* a base directory that holds the requested name and a suffixed one.
C26_Witness ==
    /\ ValidationFailed
    /\ Len(bld[1].documents) = 1
    /\ Len(bld[1].embeddings) = 2
    /\ Cardinality(DOMAIN fs0) = 2
    /\ fs = fs0

\* A build with no document and no vector has failed its validation.
C26_WitnessEmpty ==
    /\ ValidationFailed
    /\ bld[1].documents = <<>>
    /\ bld[1].embeddings = <<>>
    /\ fs0 = EmptyFn
    /\ fs = fs0

----------------------------------------------------------------------------
(* Claims about ensure_unique_path *)

\* The desired name and every suffixed candidate exist.
AllTaken ==
    /\ bld[1].store_name \in DOMAIN fs
    /\ \A suffix \in [1..SuffixLen -> Alphabet] :
          (bld[1].store_name \o <<"_">> \o suffix) \in DOMAIN fs

\* The name is the desired name, or the desired name, "_" and one suffix.
WellNamed(name, desired_name) ==
    \/ name = desired_name
    \/ /\ Len(name) = Len(desired_name) + 1 + SuffixLen
       /\ SubSeq(name, 1, Len(desired_name)) = desired_name
       /\ name[Len(desired_name) + 1] = "_"
       /\ \A i \in (Len(desired_name) + 2)..Len(name) : name[i] \in Alphabet

\* C27: ensure_unique_path creates nothing; the name it returns is the
\* candidate of its last existence check, which found nothing of that name;
\* a candidate is replaced only when it exists; every candidate is the
\* desired name or the desired name, "_" and one suffix of SuffixLen
\* characters of the alphabet, never a suffix upon a suffix; with all the
\* candidates taken the loop never ends, and with one of them unused and a
\* fair random choice it ends.
C27_UniqueName ==
    /\ [][/\ fs' = fs /\ mkdirs' = mkdirs /\ stores' = stores
          /\ bld'[1].pc = "mkdir" =>
                /\ bld'[1].final_name = bld[1].candidate
                /\ bld'[1].final_name \notin DOMAIN fs
          /\ bld'[1].candidate # bld[1].candidate => bld[1].candidate \in DOMAIN fs
         ]_vars
    /\ [](/\ WellNamed(bld[1].candidate, bld[1].store_name)
          /\ bld[1].pc = "mkdir" =>
                /\ WellNamed(bld[1].final_name, bld[1].store_name)
                /\ bld[1].final_name \notin DOMAIN fs
                /\ (bld[1].final_name = bld[1].store_name) <=> (bld[1].store_name \notin DOMAIN fs)
          /\ AllTaken => bld[1].pc = "naming"
          /\ fs = fs0)
    /\ (~AllTaken) ~> (bld[1].pc = "mkdir")

\* A call that found the desired name and all suffixed names but one
\* taken has returned the one that was left.
C27_Witness ==
    /\ bld[1].pc = "mkdir"
    /\ Cardinality(DOMAIN fs) = Cardinality([1..SuffixLen -> Alphabet])
    /\ bld[1].store_name \in DOMAIN fs
    /\ bld[1].final_name = <<"store1", "_", "0", "A", "0", "A">>

\* A call in a directory where every candidate is taken is at its loop
\* with a suffixed candidate.
C27_WitnessAllTaken ==
    /\ AllTaken
    /\ bld[1].pc = "naming"
    /\ bld[1].candidate = <<"store1", "_", "A", "A", "0", "0">>

----------------------------------------------------------------------------
(* Claims about the temporary directory of the repository *)

\* process() of the repository handler has been left, by return or by exception.
GitProcessLeft == "git" \in Range(run.calls)

\* C28 as stated: on every way out of process() (a normal return, a failure
\* of the clone or of the checkout, an exception of a parser in the middle
\* of the files) the temporary directory has been cleaned up and the
\* handler holds none.
C28_TempDirReleased ==
    GitProcessLeft => run.temp_dir = "released"

\* What holds of the code: the directory is made by every call of
\* process(); it is released when process() returns, and it is still held,
\* cleanup() not having been called, when process() is left by an
\* exception of the clone or of a parser.
TempDirReleasedOnReturn ==
    /\ ~GitProcessLeft => run.temp_dir = "none"
    /\ GitProcessLeft =>
          /\ run.temp_dir # "none"
          /\ (run.temp_dir = "released") <=> (run.pc # "git")
          /\ (run.temp_dir = "held") <=>
                (run.pc = "git" /\ run.stage = "Failed"
                 /\ (run.err.msg = "Failed to clone repository" \/ run.err.msg = "parser.parse raised"))

\* process() was left by an exception of a parser after the first file of
\* the repository had been parsed, and the directory is still held.
TempDirHeldAfterParserException ==
    /\ run.stage = "Failed"
    /\ run.pc = "git"
    /\ run.err = ParseError
    /\ Len(run.offered) >= 2
    /\ run.temp_dir = "held"

----------------------------------------------------------------------------
(* Claims about the files of a repository *)

\* The extension, lower-cased, is in the list, compared without case.
InList(file, list) == Lower(file.ext) \in {Lower(e) : e \in list}

\* The file passes the filters: not excluded and, if there is an include
\* list, included.
Passes(file) ==
    /\ ~InList(file, config.git.settings.exclude_extensions)
    /\ config.git.settings.include_extensions # {} =>
          InList(file, config.git.settings.include_extensions)

\* The files of the walk that pass the filters, in the order of the walk.
FilteredWalk == SelectSeq(config.git.files, Passes)

FirstN(seq, n) == IF n <= 0 THEN <<>> ELSE SubSeq(seq, 1, Min(n, Len(seq)))

PathsOf(files) == {PathStr(files[i]) : i \in 1..Len(files)}

\* The files iter_files has yielded: those given to a parser and those
\* skipped for want of one.
Yielded == Range(run.offered) \cup Range(run.skipped)

\* C29 as stated: iter_files yields a file only if it passes the filters,
\* exclusion winning; with max_files set it yields at most max_files
\* files, the first max_files of the filtered walk, a file counting
\* whether or not it has a parser; with max_files not set it yields the
\* filtered walk.
C29_FilteredWalk ==
    GitProcessLeft =>
        LET max_files == config.git.settings.max_files IN
        /\ \A i \in 1..Len(config.git.files) :
              PathStr(config.git.files[i]) \in Yielded => Passes(config.git.files[i])
        /\ Len(run.offered) + Len(run.skipped) = Cardinality(Yielded)
        /\ max_files.given =>
              /\ Cardinality(Yielded) <= max_files.value
              /\ Yielded = PathsOf(FirstN(FilteredWalk, max_files.value))
        /\ ~max_files.given => Yielded = PathsOf(FilteredWalk)

\* What holds of the code: the filters are as claimed; max_files limits
\* the walk only when it is a positive integer; max_files 0 is taken as no
\* limit, like None, and a negative max_files lets one file through.
IterFilesLimit ==
    GitProcessLeft =>
        LET max_files == config.git.settings.max_files IN
        /\ \A i \in 1..Len(config.git.files) :
              PathStr(config.git.files[i]) \in Yielded => Passes(config.git.files[i])
        /\ Len(run.offered) + Len(run.skipped) = Cardinality(Yielded)
        /\ (max_files.given /\ max_files.value > 0) =>
              Yielded = PathsOf(FirstN(FilteredWalk, max_files.value))
        /\ (max_files.given /\ max_files.value < 0) =>
              Yielded = PathsOf(FirstN(FilteredWalk, 1))
        /\ (~max_files.given \/ max_files.value = 0) => Yielded = PathsOf(FilteredWalk)

\* With max_files 1 and .exe excluded, a walk of an .exe and an .md file
\* has yielded the .md file.
IterFilesFirstOfFiltered ==
    /\ GitProcessLeft
    /\ config.git.settings.max_files = Some(1)
    /\ config.git.settings.exclude_extensions = {".exe"}
    /\ Len(config.git.files) = 2
    /\ config.git.files[1].ext = ".exe"
    /\ Yielded = {<<"g2", ".md">>}

\* C30 -- The connectivity script schedules one run for each configured
\* source, in the order files, git, confluence, and one more over all of
\* them when they are more than one; every run has a store name of its own;
\* every scheduled run is gone through whether or not an earlier one
\* failed; and the script exits with 1 if nothing is configured or a run
\* failed, with 0 otherwise.
ConfiguredSources ==
    SelectSeq(<<"files", "git", "confluence">>,
              LAMBDA name :
                  CASE name = "files" -> config.script.args.files_location # NoFiles
                    [] name = "git" -> config.script.args.git_settings # NoGit
                    [] OTHER -> config.script.args.confluence_settings # NoWiki)

StoreNamesOfRuns ==
    [k \in 1..Len(config.script.log) |-> config.script.log[k].store_name]
        \o (IF config.script.pc = "running" THEN <<config.vector_store_name>> ELSE <<>>)

C30_ConnectivityRuns ==
    LET script == config.script
        n == Len(ConfiguredSources)
        names == StoreNamesOfRuns
    IN /\ script.pc # "start" =>
            /\ Len(script.runs) = n + (IF n > 1 THEN 1 ELSE 0)
            /\ \A k \in 1..n : script.runs[k] = {ConfiguredSources[k]}
            /\ n > 1 => script.runs[n + 1] = {ConfiguredSources[k] : k \in 1..n}
       /\ \A j, k \in 1..Len(names) : j # k => names[j] # names[k]
       /\ \A k \in 1..Len(script.log) : script.log[k].source_set = script.runs[k]
       /\ script.pc = "exited" =>
            /\ Len(script.log) = Len(script.runs)
            /\ script.exit_code \in {0, 1}
            /\ script.exit_code = 1 <=>
                   \/ n = 0
                   \/ \E k \in 1..Len(script.log) : ~script.log[k].ok

\* Three sources: the git run fails, the confluence run after it succeeds,
\* the combined run is gone through as well, the script exits with 1.
C30_Witness ==
    /\ config.script.pc = "exited"
    /\ Len(config.script.log) = 4
    /\ config.script.log[1].ok
    /\ ~config.script.log[2].ok
    /\ config.script.log[3].ok
    /\ config.script.log[4].source_set = {"files", "git", "confluence"}
    /\ config.script.exit_code = 1

\* Two sources, three runs, all succeed, the script exits with 0.
C30_WitnessZero ==
    /\ config.script.pc = "exited"
    /\ Len(config.script.log) = 3
    /\ \A k \in 1..3 : config.script.log[k].ok
    /\ config.script.exit_code = 0

\* Nothing configured: no run, exit code 1.
C30_WitnessNone ==
    /\ config.script.pc = "exited"
    /\ config.script.runs = <<>>
    /\ config.script.exit_code = 1

====
